---- MODULE Spec2Model ----
(***************************************************************************)
(* MonDrop: the eligibility caches (cacheManager.js), the address selector *)
(* (addressSelector.js), the block buffer (blockMonitor.js) and the        *)
(* single-flight token sender with its pending queue (tokenSender.js).     *)
(***************************************************************************)
EXTENDS Integers, Sequences, FiniteSets, TLC

(***************************************************************************)
(* Bounds of the model.                                                    *)
(***************************************************************************)
\* largest value the cache batch counters and the batch arguments take
MaxBatch == 4
\* cooldownBatches is drawn from 0..MaxCooldown
MaxCooldown == 2
\* batch arguments of direct calls of the cache functions are drawn from 1..MaxBatchArg
MaxBatchArg == 2
\* number of non-empty batches handed to sendTokens
MaxSubmissions == 3
\* longest batch handed to sendTokens in a direct call
MaxBatchLen == 2
\* longest candidates list handed to selectRandomAddresses in a direct call
MaxCandidates == 3
\* largest count handed to selectRandomAddresses in a direct call
MaxCount == 2
\* number of selectRandomAddresses calls that return
MaxSelections == 2
\* size of a sub-batch of probes (50 in addressSelector.js), scaled down
batchSize == 2
\* config.addressesPerBatch (50 in config.js), scaled down
addressesPerBatch == 1
\* number of blocks checkForNewBlocks finds
MaxBlocks == 2
\* largest value of the batch counters where the expiry of contract entries
\* is followed
MaxContractBatch == 12
MaxTimers == 4
MaxFirings == 2
MaxPolls == 3

MaxQueue == 2

(***************************************************************************)
(* Addresses.  Raw addresses are the strings that arrive from the chain;   *)
(* "A" is the mixed-case spelling of "a".                                  *)
(***************************************************************************)
RawAddresses == {"a", "A", "b", "c"}

toLowerCase(s) == IF s = "A" THEN "a" ELSE s

Addresses == {toLowerCase(s) : s \in RawAddresses}

VARIABLES
    cooldownBatches,                  \* config.cooldownBatches
    walletAddressCache,               \* Set of normalized addresses
    walletAddressExpirationCache,     \* Map batch -> Set, in insertion order
    contractAddressCache,             \* Map address -> boolean
    contractAddressExpirationCache,   \* Map batch -> Set, in insertion order
    currentWalletAddressCacheBatch,
    currentContractAddressCacheBatch,
    isProcessingSend,                 \* tokenSender: a send cycle is in flight
    transactionQueue,                 \* tokenSender: batches waiting, oldest first
    active,                           \* the processBatch invocations that have not returned
    pendingSends,                     \* the sendTransaction requests that have not settled
    currentBatch,                     \* batchManager
    dropCount,                        \* batchManager
    submitted,                        \* history: number of non-empty batches handed to sendTokens
    startOrder,                       \* history: the batches in the order their sending started
    sel,                              \* the selectRandomAddresses call in progress
    lastCall,                         \* history: the selectRandomAddresses call that returned last
    returnedAt,                       \* history: address -> wallet batch counter when last returned
    newBlocksBuffer,                  \* blockMonitor: blocks waiting for the next drop
    isProcessingBlocks,               \* blockMonitor: a processBlocks call is running
    preChecks,                        \* the filterContractAddresses calls that have not returned
    polls,                            \* number of checkForNewBlocks calls that have started
    lastProcessedBlock,               \* blockMonitor: block numbers count from the block at the start
    latestBlock,                      \* the number of the newest block of the chain
    fetches,                          \* the checkForNewBlocks calls that have not returned
    pushed,                           \* history: the numbers of the blocks put into the buffer, in order
    handed,                           \* history: the numbers of the blocks given to processBlocks, in order
    intervals,                        \* timeManager: Map taskName -> interval id
    timers,                           \* the interval timers of the runtime that are set
    timerCount,                       \* number of timers setInterval has created
    registered,                       \* history: taskName -> function last given to scheduleTask
    fired,                            \* history: the timer callbacks that have run, in order
    PRIVATE_KEY,                      \* process.env.PRIVATE_KEY
    startup                           \* main: how far startMonDrop has got

cacheVars == <<walletAddressCache, walletAddressExpirationCache,
               contractAddressCache, contractAddressExpirationCache,
               currentWalletAddressCacheBatch, currentContractAddressCacheBatch>>

queueVars == <<isProcessingSend, transactionQueue, active, pendingSends,
               currentBatch, dropCount, submitted, startOrder>>

selVars == <<sel, lastCall, returnedAt>>

monitorVars == <<newBlocksBuffer, isProcessingBlocks, preChecks, polls>>

blockVars == <<lastProcessedBlock, latestBlock, fetches, pushed, handed>>

timeVars == <<intervals, timers, timerCount, registered, fired, PRIVATE_KEY, startup>>

vars == <<timeVars, blockVars, cooldownBatches, cacheVars, queueVars, selVars,
          monitorVars>>

(***************************************************************************)
(* A JavaScript Map from batch number to Set of addresses: a sequence of   *)
(* entries in insertion order (the order entries() iterates in).           *)
(***************************************************************************)
MapHas(m, b) == \E i \in 1..Len(m) : m[i].batch = b

MapGet(m, b) == (m[CHOOSE i \in 1..Len(m) : m[i].batch = b]).addresses

MapDelete(m, b) == SelectSeq(m, LAMBDA e : e.batch # b)

MapSet(m, b, s) ==
    IF MapHas(m, b)
    THEN [i \in 1..Len(m) |->
            IF m[i].batch = b THEN [batch |-> b, addresses |-> s] ELSE m[i]]
    ELSE Append(m, [batch |-> b, addresses |-> s])

MapKeys(m) == {m[i].batch : i \in 1..Len(m)}

\* for (const [batch, addresses] of m.entries()) if (addresses.has(a)) { cur = batch; break }
\* the result is {} for null and {batch} for a batch found
FindExpirationBatch(m, a) ==
    LET hits == {i \in 1..Len(m) : a \in m[i].addresses}
    IN IF hits = {} THEN {}
       ELSE {m[CHOOSE i \in hits : \A j \in hits : i <= j].batch}

\* m.get(b).delete(a); if (m.get(b).size === 0) m.delete(b)
RemoveFromBucket(m, b, a) ==
    LET m1 == MapSet(m, b, MapGet(m, b) \ {a})
    IN IF MapGet(m1, b) = {} THEN MapDelete(m1, b) ELSE m1

\* if (!m.has(b)) m.set(b, new Set()); m.get(b).add(a)
AddToBucket(m, b, a) ==
    LET m1 == IF ~MapHas(m, b) THEN MapSet(m, b, {}) ELSE m
    IN MapSet(m1, b, MapGet(m1, b) \cup {a})

\* every address held in some bucket of m
Scheduled(m) == UNION {m[i].addresses : i \in 1..Len(m)}

\* the batches whose bucket holds a
BucketsOf(m, a) == {i \in 1..Len(m) : a \in m[i].addresses}

(***************************************************************************)
(* cacheManager.js                                                         *)
(***************************************************************************)
isWalletAddressInCache(cache, address) == toLowerCase(address) \in cache

isContractAddressInCache(cmap, address) == toLowerCase(address) \in DOMAIN cmap

getContractAddressFromCache(cmap, address) == cmap[toLowerCase(address)]

\* addToWalletAddressCache without the removal from the earlier bucket
addToWalletAddressCache_KeepsOldBucket(cache, exp, address, atBatch) ==
    LET normalizedAddress == toLowerCase(address)
        expirationBatch == atBatch + cooldownBatches
    IN [cache |-> cache \cup {normalizedAddress},
        exp |-> AddToBucket(exp, expirationBatch, normalizedAddress)]

\* the wallet cache after addToWalletAddressCache(address, atBatch)
addToWalletAddressCache(cache, exp, address, atBatch) ==
    LET normalizedAddress == toLowerCase(address)
        expirationBatch == atBatch + cooldownBatches
        isNewAddress == normalizedAddress \notin cache
        currentExpirationBatch ==
            IF ~isNewAddress THEN FindExpirationBatch(exp, normalizedAddress)
            ELSE {}
    IN IF currentExpirationBatch # {expirationBatch}
       THEN LET exp1 == IF currentExpirationBatch # {}
                        THEN RemoveFromBucket(
                                 exp,
                                 CHOOSE b \in currentExpirationBatch : TRUE,
                                 normalizedAddress)
                        ELSE exp
            IN [cache |-> cache \cup {normalizedAddress},
                exp |-> AddToBucket(exp1, expirationBatch, normalizedAddress)]
       ELSE [cache |-> cache, exp |-> exp]

\* updateContractAddressCache with the wallet cooldown as its expiry period
updateContractAddressCache_NoMultiplier(cmap, exp, address, atBatch, isNewContract) ==
    LET normalizedAddress == toLowerCase(address)
        expirationBatch == atBatch + cooldownBatches
        cmap1 == IF isNewContract
                 THEN [x \in DOMAIN cmap \cup {normalizedAddress} |->
                          IF x = normalizedAddress THEN TRUE ELSE cmap[x]]
                 ELSE cmap
        currentExpirationBatch ==
            IF normalizedAddress \in DOMAIN cmap1
            THEN FindExpirationBatch(exp, normalizedAddress)
            ELSE {}
    IN IF currentExpirationBatch # {expirationBatch}
       THEN LET exp1 == IF currentExpirationBatch # {}
                        THEN RemoveFromBucket(
                                 exp,
                                 CHOOSE b \in currentExpirationBatch : TRUE,
                                 normalizedAddress)
                        ELSE exp
            IN [cmap |-> cmap1,
                exp |-> AddToBucket(exp1, expirationBatch, normalizedAddress)]
       ELSE [cmap |-> cmap1, exp |-> exp]

\* the contract cache after updateContractAddressCache(address, atBatch, isNewContract)
updateContractAddressCache(cmap, exp, address, atBatch, isNewContract) ==
    LET normalizedAddress == toLowerCase(address)
        expirationBatch == atBatch + cooldownBatches * 10
        cmap1 == IF isNewContract
                 THEN [x \in DOMAIN cmap \cup {normalizedAddress} |->
                          IF x = normalizedAddress THEN TRUE ELSE cmap[x]]
                 ELSE cmap
        currentExpirationBatch ==
            IF normalizedAddress \in DOMAIN cmap1
            THEN FindExpirationBatch(exp, normalizedAddress)
            ELSE {}
    IN IF currentExpirationBatch # {expirationBatch}
       THEN LET exp1 == IF currentExpirationBatch # {}
                        THEN RemoveFromBucket(
                                 exp,
                                 CHOOSE b \in currentExpirationBatch : TRUE,
                                 normalizedAddress)
                        ELSE exp
            IN [cmap |-> cmap1,
                exp |-> AddToBucket(exp1, expirationBatch, normalizedAddress)]
       ELSE [cmap |-> cmap1, exp |-> exp]

\* cleanupContractAddressCache that drops the addresses of the bucket from the
\* map and leaves the bucket in the index
cleanupContractAddressCache_KeepsBucket(cmap, exp, atBatch) ==
    IF MapHas(exp, atBatch)
    THEN [cmap |-> [x \in DOMAIN cmap \ MapGet(exp, atBatch) |-> cmap[x]],
          exp |-> exp]
    ELSE [cmap |-> cmap, exp |-> exp]

\* the contract cache after cleanupContractAddressCache(atBatch)
cleanupContractAddressCache(cmap, exp, atBatch) ==
    IF MapHas(exp, atBatch)
    THEN [cmap |-> [x \in DOMAIN cmap \ MapGet(exp, atBatch) |-> cmap[x]],
          exp |-> MapDelete(exp, atBatch)]
    ELSE [cmap |-> cmap, exp |-> exp]

\* cleanupWalletAddressCache that drops the bucket and leaves its addresses
\* in the Set
cleanupWalletAddressCache_KeepsMembers(cache, exp, atBatch) ==
    [cache |-> cache, exp |-> MapDelete(exp, atBatch)]

\* the wallet cache after the wallet part of cleanupWalletAddressCache(atBatch, _)
cleanupWalletAddressCache(cache, exp, atBatch) ==
    IF MapHas(exp, atBatch)
    THEN [cache |-> cache \ MapGet(exp, atBatch),
          exp |-> MapDelete(exp, atBatch)]
    ELSE [cache |-> cache, exp |-> exp]

(***************************************************************************)
(* The state of the selector before the first call (addressSelector.js).   *)
(***************************************************************************)
NoCall == [selected |-> <<>>, calledAt |-> 0, returnedAt |-> 0, n |-> 0,
           previous |-> [a \in Addresses |-> 0], cacheAtCall |-> {},
           distinctInput |-> TRUE, pool |-> <<>>, count |-> 0]


SelIdle == [pc |-> "idle", caller |-> "", count |-> 0, preFilteredAddresses |-> <<>>,
            unknownContractStatus |-> <<>>, i |-> 0, results |-> <<>>,
            distinctInput |-> TRUE, calledAt |-> 0, cacheAtCall |-> {}]

SelectorStart ==
    /\ sel = SelIdle
    /\ lastCall = NoCall
    /\ returnedAt = [a \in Addresses |-> 0]

\* the state of the block monitor when startBlockMonitor has run
MonitorStart ==
    /\ newBlocksBuffer = <<>>
    /\ isProcessingBlocks = FALSE
    /\ preChecks = {}
    /\ polls = 0
    /\ lastProcessedBlock = 0
    /\ latestBlock = 0
    /\ fetches = {}
    /\ pushed = <<>>
    /\ handed = <<>>

(***************************************************************************)
(* timeManager (in blockMonitor.js) and the start of main.js               *)
(***************************************************************************)
TaskNames == {"processTransactionQueue", "checkWalletBalance", "cacheCleanup",
              "logCacheStats", "checkNewBlocks", "processDrop"}

\* the registry and the timers of the runtime as one value
TimeManager ==
    [intervals |-> intervals, timers |-> timers, timerCount |-> timerCount,
     registered |-> registered]

SetTimeManager(tm) ==
    /\ intervals' = tm.intervals
    /\ timers' = tm.timers
    /\ timerCount' = tm.timerCount
    /\ registered' = tm.registered

NoTimeManager ==
    [intervals |-> <<>>, timers |-> {}, timerCount |-> 0,
     registered |-> [n \in TaskNames |-> "none"]]

\* clearInterval(id)
clearInterval(ts, id) == {t \in ts : t.id # id}

\* setInterval(callback, intervalMs), the callback running taskFn for taskName
setInterval(tm, taskName, taskFn) ==
    tm.timers \cup {[id |-> tm.timerCount + 1, taskName |-> taskName,
                     taskFn |-> taskFn]}

\* intervals.set(taskName, id)
IntervalsSet(m, taskName, id) ==
    [n \in DOMAIN m \cup {taskName} |-> IF n = taskName THEN id ELSE m[n]]

\* intervals.delete(taskName)
IntervalsDelete(m, taskName) == [n \in DOMAIN m \ {taskName} |-> m[n]]

\* a scheduleTask that sets the new timer without clearing the one it replaces
scheduleTask_KeepsOldTimer(tm, taskName, taskFn) ==
    [intervals |-> IntervalsSet(tm.intervals, taskName, tm.timerCount + 1),
     timers |-> setInterval(tm, taskName, taskFn),
     timerCount |-> tm.timerCount + 1,
     registered |-> [tm.registered EXCEPT ![taskName] = taskFn]]

\* scheduleTask(taskName, taskFn, intervalMs)
scheduleTask(tm, taskName, taskFn) ==
    [intervals |-> IntervalsSet(tm.intervals, taskName, tm.timerCount + 1),
     timers |-> setInterval([tm EXCEPT !.timers =
                                 IF taskName \in DOMAIN tm.intervals
                                 THEN clearInterval(tm.timers, tm.intervals[taskName])
                                 ELSE tm.timers],
                            taskName, taskFn),
     timerCount |-> tm.timerCount + 1,
     registered |-> [tm.registered EXCEPT ![taskName] = taskFn]]

\* clearScheduledTask(taskName)
clearScheduledTask(tm, taskName) ==
    IF taskName \in DOMAIN tm.intervals
    THEN [tm EXCEPT !.timers = clearInterval(tm.timers, tm.intervals[taskName]),
                    !.intervals = IntervalsDelete(tm.intervals, taskName)]
    ELSE tm

\* a clearAllScheduledTasks that empties the registry and clears no timer
clearAllScheduledTasks_OnlyRegistry(tm) == [tm EXCEPT !.intervals = <<>>]

\* clearAllScheduledTasks()
clearAllScheduledTasks(tm) ==
    [tm EXCEPT !.timers = {t \in tm.timers :
                               \A n \in DOMAIN tm.intervals : tm.intervals[n] # t.id},
               !.intervals = <<>>]

\* an initializeWallet that registers its tasks before it looks at the key
initializeWallet_SchedulesFirst(tm, key) ==
    [threw |-> key = "",
     tm |-> scheduleTask(scheduleTask(tm, "processTransactionQueue",
                                      "processTransactionQueue"),
                         "checkWalletBalance", "checkWalletBalance")]

\* initializeWallet(): throws on a missing key, otherwise registers its two tasks
initializeWallet(tm, key) ==
    IF key = ""
    THEN [threw |-> TRUE, tm |-> tm]
    ELSE [threw |-> FALSE,
          tm |-> scheduleTask(scheduleTask(tm, "processTransactionQueue",
                                           "processTransactionQueue"),
                              "checkWalletBalance", "checkWalletBalance")]

\* initializeCacheManager()
initializeCacheManager(tm) ==
    scheduleTask(scheduleTask(tm, "cacheCleanup", "cacheCleanup"),
                 "logCacheStats", "logCacheStats")

\* initialize(): false when initializeWallet threw
initialize(tm, key) ==
    IF initializeWallet(tm, key).threw
    THEN [ok |-> FALSE, tm |-> initializeWallet(tm, key).tm]
    ELSE [ok |-> TRUE, tm |-> initializeCacheManager(initializeWallet(tm, key).tm)]

\* the two scheduleTask calls of startBlockMonitor
ScheduleMonitorTasks(tm) ==
    scheduleTask(scheduleTask(tm, "checkNewBlocks", "checkForNewBlocks"),
                 "processDrop", "processBlockBuffer")

\* startMonDrop() up to its await of getLatestBlockNumber, or to process.exit(1)
startMonDrop ==
    /\ startup = "start"
    /\ SetTimeManager(initialize(TimeManager, PRIVATE_KEY).tm)
    /\ startup' = IF initialize(TimeManager, PRIVATE_KEY).ok
                  THEN "startBlockMonitor" ELSE "exited"
    /\ UNCHANGED <<fired, PRIVATE_KEY>>
    /\ UNCHANGED <<blockVars, cooldownBatches, cacheVars, queueVars, selVars, monitorVars>>

\* getLatestBlockNumber settles: startBlockMonitor registers its two tasks, or
\* it throws and startMonDrop clears the tasks and exits
startBlockMonitor(ok) ==
    /\ startup = "startBlockMonitor"
    /\ SetTimeManager(IF ok THEN ScheduleMonitorTasks(TimeManager)
                            ELSE clearAllScheduledTasks(TimeManager))
    /\ startup' = IF ok THEN "running" ELSE "exited"
    /\ UNCHANGED <<fired, PRIVATE_KEY>>
    /\ UNCHANGED <<blockVars, cooldownBatches, cacheVars, queueVars, selVars, monitorVars>>

\* SIGINT or SIGTERM: clearAllScheduledTasks(), process.exit(0)
Signal ==
    /\ startup \in {"startBlockMonitor", "running"}
    /\ SetTimeManager(clearAllScheduledTasks(TimeManager))
    /\ startup' = "exited"
    /\ UNCHANGED <<fired, PRIVATE_KEY>>
    /\ UNCHANGED <<blockVars, cooldownBatches, cacheVars, queueVars, selVars, monitorVars>>

\* a timer that is set fires and its callback runs taskFn
TimerFires(t) ==
    /\ t \in timers
    /\ startup # "exited"
    /\ Len(fired) < MaxFirings
    /\ fired' = Append(fired, [taskName |-> t.taskName, taskFn |-> t.taskFn])
    /\ UNCHANGED <<intervals, timers, timerCount, registered, PRIVATE_KEY, startup>>
    /\ UNCHANGED <<blockVars, cooldownBatches, cacheVars, queueVars, selVars, monitorVars>>

\* direct calls of the timeManager functions
CallScheduleTask(taskName, taskFn) ==
    /\ timerCount < MaxTimers
    /\ SetTimeManager(scheduleTask(TimeManager, taskName, taskFn))
    /\ UNCHANGED <<fired, PRIVATE_KEY, startup>>
    /\ UNCHANGED <<blockVars, cooldownBatches, cacheVars, queueVars, selVars, monitorVars>>

CallClearScheduledTask(taskName) ==
    /\ SetTimeManager(clearScheduledTask(TimeManager, taskName))
    /\ UNCHANGED <<fired, PRIVATE_KEY, startup>>
    /\ UNCHANGED <<blockVars, cooldownBatches, cacheVars, queueVars, selVars, monitorVars>>

CallClearAllScheduledTasks ==
    /\ SetTimeManager(clearAllScheduledTasks(TimeManager))
    /\ UNCHANGED <<fired, PRIVATE_KEY, startup>>
    /\ UNCHANGED <<blockVars, cooldownBatches, cacheVars, queueVars, selVars, monitorVars>>

\* timeManager before any task is registered, main.js not started
TimeStart ==
    /\ intervals = NoTimeManager.intervals
    /\ timers = NoTimeManager.timers
    /\ timerCount = NoTimeManager.timerCount
    /\ registered = NoTimeManager.registered
    /\ fired = <<>>
    /\ PRIVATE_KEY = "key"
    /\ startup = "start"

\* the timeManager state once startMonDrop has started the block monitor
RunningTimeManager == ScheduleMonitorTasks(initialize(NoTimeManager, "key").tm)

TimeRunning ==
    /\ intervals = RunningTimeManager.intervals
    /\ timers = RunningTimeManager.timers
    /\ timerCount = RunningTimeManager.timerCount
    /\ registered = RunningTimeManager.registered
    /\ fired = <<>>
    /\ PRIVATE_KEY = "key"
    /\ startup = "running"

(***************************************************************************)
(* tokenSender.js (the version with the pending queue) and batchManager.js *)
(***************************************************************************)
\* the state after initializeWallet and initializeBatchManager
QueueStart ==
    /\ isProcessingSend = FALSE
    /\ transactionQueue = <<>>
    /\ active = {}
    /\ pendingSends = {}
    /\ currentBatch = 1
    /\ dropCount = 0
    /\ submitted = 0
    /\ startOrder = <<>>

\* the mapper of processBatch without its try/catch: a failed send rejects
transactionResult_NoCatch(ok) == IF ok THEN "sent" ELSE "rejected"

\* what the mapper of processBatch returns for one address: the catch turns
\* a failed sendTransaction into a result of status "failed"
transactionResult(ok) == IF ok THEN "sent" ELSE "failed"

\* a join that settles as soon as one mapper has returned
PromiseAllSettled_Any(results) ==
    \E i \in 1..Len(results) : results[i] # "pending"

\* await Promise.all(transactionPromises): settled once every mapper has
\* fulfilled, or as soon as one has rejected
PromiseAllSettled(results) ==
    \/ \E i \in 1..Len(results) : results[i] = "rejected"
    \/ \A i \in 1..Len(results) : results[i] # "pending"

PromiseAllRejected(results) ==
    \E i \in 1..Len(results) : results[i] = "rejected"

\* the synchronous start of processBatch(addresses): addresses.map issues one
\* sendTransaction per address before the first await
StartProcessBatch(id, addresses, via, running, sends) ==
    [active |-> running \cup {[id |-> id, addresses |-> addresses, via |-> via,
                               results |-> [i \in 1..Len(addresses) |-> "pending"]]},
     pendingSends |-> sends \cup {<<id, i>> : i \in 1..Len(addresses)}]

\* a sendTokens that puts a batch it cannot start at the head of the queue
sendTokensBody_QueuesAtFront(id, addresses) ==
    IF isProcessingSend
    THEN /\ transactionQueue' =
                <<[id |-> id, addresses |-> addresses]>> \o transactionQueue
         /\ UNCHANGED <<isProcessingSend, active, pendingSends>>
    ELSE /\ isProcessingSend' = TRUE
         /\ active' = StartProcessBatch(id, addresses, "sendTokens",
                                        active, pendingSends).active
         /\ pendingSends' = StartProcessBatch(id, addresses, "sendTokens",
                                              active, pendingSends).pendingSends
         /\ UNCHANGED transactionQueue

\* sendTokens(addresses) past its two guards, up to its first await: what it
\* does to the sender, the batch being known as id
sendTokensBody(id, addresses) ==
    IF isProcessingSend
    THEN /\ transactionQueue' =
                Append(transactionQueue, [id |-> id, addresses |-> addresses])
         /\ UNCHANGED <<isProcessingSend, active, pendingSends>>
    ELSE /\ isProcessingSend' = TRUE
         /\ active' = StartProcessBatch(id, addresses, "sendTokens",
                                        active, pendingSends).active
         /\ pendingSends' = StartProcessBatch(id, addresses, "sendTokens",
                                              active, pendingSends).pendingSends
         /\ UNCHANGED transactionQueue

\* sendTokens(addresses) up to its first await, the wallet being initialized
sendTokens(addresses) ==
    IF Len(addresses) = 0
    THEN UNCHANGED queueVars
    ELSE /\ sendTokensBody(submitted + 1, addresses)
         /\ submitted' = submitted + 1
         /\ startOrder' = IF isProcessingSend
                          THEN startOrder
                          ELSE Append(startOrder, submitted + 1)
         /\ UNCHANGED <<currentBatch, dropCount>>

\* a direct call of sendTokens
CallSendTokens(addresses) ==
    /\ submitted < MaxSubmissions
    /\ sendTokens(addresses)
    /\ UNCHANGED <<timeVars, blockVars, cooldownBatches, cacheVars, selVars, monitorVars>>

\* processTransactionQueue up to its first await: what it does to the sender
processTransactionQueueBody ==
    /\ ~(isProcessingSend \/ Len(transactionQueue) = 0)
    /\ isProcessingSend' = TRUE
    /\ transactionQueue' = Tail(transactionQueue)
    /\ active' = StartProcessBatch(Head(transactionQueue).id,
                                   Head(transactionQueue).addresses, "queue",
                                   active, pendingSends).active
    /\ pendingSends' = StartProcessBatch(Head(transactionQueue).id,
                                         Head(transactionQueue).addresses, "queue",
                                         active, pendingSends).pendingSends

\* the processTransactionQueue task fires
processTransactionQueue ==
    /\ processTransactionQueueBody
    /\ startOrder' = Append(startOrder, Head(transactionQueue).id)
    /\ UNCHANGED <<currentBatch, dropCount, submitted>>
    /\ UNCHANGED <<timeVars, blockVars, cooldownBatches, cacheVars, selVars, monitorVars>>

\* a sendTokens without its finally block: a throw leaves the flag set
sendTokensThrows_NoFinally(addresses) ==
    /\ submitted < MaxSubmissions
    /\ Len(addresses) # 0
    /\ ~isProcessingSend
    /\ submitted' = submitted + 1
    /\ isProcessingSend' = TRUE
    /\ UNCHANGED <<transactionQueue, active, pendingSends, currentBatch,
                   dropCount, startOrder>>
    /\ UNCHANGED <<timeVars, blockVars, cooldownBatches, cacheVars, selVars, monitorVars>>

\* a direct call of sendTokens in which processBatch throws before it has
\* issued a send: the flag is set, the promise rejects, and the finally block
\* clears the flag and counts the drop
sendTokensThrows(addresses) ==
    /\ submitted < MaxSubmissions
    /\ Len(addresses) # 0
    /\ ~isProcessingSend
    /\ submitted' = submitted + 1
    /\ isProcessingSend' = FALSE
    /\ dropCount' = dropCount + 1
    /\ UNCHANGED <<transactionQueue, active, pendingSends, currentBatch, startOrder>>
    /\ UNCHANGED <<timeVars, blockVars, cooldownBatches, cacheVars, selVars, monitorVars>>

\* the processTransactionQueue task fires and processBatch throws before it
\* has issued a send: the batch has left the queue, the catch block logs and
\* the finally block clears the flag
processTransactionQueueThrows ==
    /\ ~(isProcessingSend \/ Len(transactionQueue) = 0)
    /\ transactionQueue' = Tail(transactionQueue)
    /\ isProcessingSend' = FALSE
    /\ UNCHANGED <<active, pendingSends, currentBatch, dropCount, submitted,
                   startOrder>>
    /\ UNCHANGED <<timeVars, blockVars, cooldownBatches, cacheVars, selVars, monitorVars>>

\* one sendTransaction settles and the mapper of processBatch returns
SendSettles(id, i, ok) ==
    /\ <<id, i>> \in pendingSends
    /\ pendingSends' = pendingSends \ {<<id, i>>}
    /\ active' = {IF c.id = id
                  THEN [c EXCEPT !.results[i] = transactionResult(ok)]
                  ELSE c : c \in active}
    /\ UNCHANGED <<isProcessingSend, transactionQueue, currentBatch, dropCount,
                   submitted, startOrder>>
    /\ UNCHANGED <<timeVars, blockVars, cooldownBatches, cacheVars, selVars, monitorVars>>

\* Promise.all settles, processBatch returns (or throws) and the finally
\* block of its caller clears the flag
BatchSettlesBody(c) ==
    /\ c \in active
    /\ PromiseAllSettled(c.results)
    /\ active' = active \ {c}
    /\ isProcessingSend' = FALSE
    /\ UNCHANGED <<transactionQueue, pendingSends>>

\* a completion in which only the sendTokens path advances the batch counter
BatchSettles_DirectOnlyIncrement(c) ==
    /\ BatchSettlesBody(c)
    /\ currentBatch' = IF c.via = "sendTokens" THEN currentBatch + 1 ELSE currentBatch
    /\ dropCount' = IF c.via = "sendTokens" THEN dropCount + 1 ELSE dropCount
    /\ UNCHANGED <<submitted, startOrder>>
    /\ UNCHANGED <<timeVars, blockVars, cooldownBatches, cacheVars, selVars, monitorVars>>

\* Promise.all settles: processBatch counts the results, calls incrementBatch
\* and returns (or throws), and the caller's finally block runs
BatchSettles(c) ==
    /\ BatchSettlesBody(c)
    /\ currentBatch' = IF PromiseAllRejected(c.results)
                       THEN currentBatch ELSE currentBatch + 1
    /\ dropCount' = IF c.via = "sendTokens" THEN dropCount + 1 ELSE dropCount
    /\ UNCHANGED <<submitted, startOrder>>
    /\ UNCHANGED <<timeVars, blockVars, cooldownBatches, cacheVars, selVars, monitorVars>>

\* the batches handed to sendTokens in direct calls
BatchInputs ==
    {<<>>} \cup UNION {[1..n -> {"a", "b"}] : n \in 1..MaxBatchLen}

QueueInit ==
    /\ cooldownBatches \in {MaxCooldown}
    /\ walletAddressCache = {}
    /\ walletAddressExpirationCache = <<>>
    /\ contractAddressCache = <<>>
    /\ contractAddressExpirationCache = <<>>
    /\ currentWalletAddressCacheBatch = 1
    /\ currentContractAddressCacheBatch = 1
    /\ QueueStart
    /\ SelectorStart
    /\ MonitorStart
    /\ TimeStart

QueueNext ==
    \/ \E addresses \in BatchInputs : CallSendTokens(addresses)
    \/ processTransactionQueue
    \/ \E addresses \in BatchInputs : sendTokensThrows(addresses)
    \/ processTransactionQueueThrows
    \/ \E s \in pendingSends, ok \in BOOLEAN : SendSettles(s[1], s[2], ok)
    \/ \E c \in active : BatchSettles(c)

QueueSpec == QueueInit /\ [][QueueNext]_vars

(***************************************************************************)
(* addressSelector.js                                                      *)
(***************************************************************************)
\* the addresses that hold code on the chain
ContractsOnChain == {"c"}

\* what publicClient.getCode can answer for an address: its code, or a failure
ProbeOutcomes(address) ==
    IF toLowerCase(address) \in ContractsOnChain
    THEN {"code", "error"} ELSE {"empty", "error"}

Min(x, y) == IF x <= y THEN x ELSE y

Range(q) == {q[k] : k \in 1..Len(q)}

\* how often each entry occurs in the list q
BagOf(q) == [x \in Range(q) |-> Cardinality({k \in 1..Len(q) : q[k] = x})]

\* addresses.slice(i, i + batchSize), i counted from 0
Slice(addresses, i, n) ==
    SubSeq(addresses, i + 1, Min(i + n, Len(addresses)))

\* the contract cache r together with the answer of isContractAddress
Answer(r, result) == [cmap |-> r.cmap, exp |-> r.exp, result |-> result]

\* return getContractAddressFromCache(normalizedAddress) after the refresh
CachedAnswer(r, normalizedAddress) ==
    Answer(r, IF getContractAddressFromCache(r.cmap, normalizedAddress)
              THEN "contract" ELSE "wallet")

\* isContractAddress without its cache lookup: every call probes
isContractAddressCall_AlwaysProbes(cmap, exp, address) ==
    [cmap |-> cmap, exp |-> exp, result |-> "pending"]

\* isContractAddress(address) up to its await: a cache hit refreshes the entry
\* and answers from the cache, a miss leaves a getCode probe outstanding
isContractAddressCall(cmap, exp, address) ==
    IF isContractAddressInCache(cmap, toLowerCase(address))
    THEN CachedAnswer(
             updateContractAddressCache(cmap, exp, toLowerCase(address),
                 currentContractAddressCacheBatch, FALSE),
             toLowerCase(address))
    ELSE [cmap |-> cmap, exp |-> exp, result |-> "pending"]

\* isContractAddress answering true when the probe fails
isContractAddressResume_ErrorAsContract(cmap, exp, address, outcome) ==
    IF outcome = "code"
    THEN Answer(updateContractAddressCache(cmap, exp, toLowerCase(address),
                    currentContractAddressCacheBatch, TRUE),
                "contract")
    ELSE [cmap |-> cmap, exp |-> exp,
          result |-> IF outcome = "error" THEN "contract" ELSE "wallet"]

\* isContractAddress storing the negative answer of the probe as well
isContractAddressResume_CachesNegative(cmap, exp, address, outcome) ==
    IF outcome = "code"
    THEN Answer(updateContractAddressCache(cmap, exp, toLowerCase(address),
                    currentContractAddressCacheBatch, TRUE),
                "contract")
    ELSE [cmap |-> IF outcome = "empty"
                   THEN [x \in DOMAIN cmap \cup {toLowerCase(address)} |->
                            IF x = toLowerCase(address) THEN FALSE ELSE cmap[x]]
                   ELSE cmap,
          exp |-> exp, result |-> "wallet"]

\* isContractAddress(address) after its await, the probe having answered
\* outcome: code is cached as a contract, no code and a failure are not cached
isContractAddressResume(cmap, exp, address, outcome) ==
    IF outcome = "code"
    THEN Answer(updateContractAddressCache(cmap, exp, toLowerCase(address),
                    currentContractAddressCacheBatch, TRUE),
                "contract")
    ELSE [cmap |-> cmap, exp |-> exp, result |-> "wallet"]

PrependResult(result, rest) == [rest EXCEPT !.results = <<result>> \o @]

\* batch.map((address) => isContractAddress(address)): the calls are made one
\* after the other before the first await
RECURSIVE StartProbes(_, _, _)
StartProbesAfter(first, rest) ==
    PrependResult(first.result, StartProbes(first.cmap, first.exp, rest))

StartProbes(cmap, exp, batch) ==
    IF batch = <<>>
    THEN [cmap |-> cmap, exp |-> exp, results |-> <<>>]
    ELSE StartProbesAfter(isContractAddressCall(cmap, exp, Head(batch)),
                          Tail(batch))

Outstanding(results) == {k \in 1..Len(results) : results[k] = "pending"}

\* the pass of the first loop without its isWalletAddressInCache test
Classify_IgnoresWalletCache(address, rest, cache, cmap) ==
    IF /\ isContractAddressInCache(cmap, toLowerCase(address))
       /\ getContractAddressFromCache(cmap, toLowerCase(address)) = TRUE
    THEN rest
    ELSE IF isContractAddressInCache(cmap, toLowerCase(address))
    THEN [rest EXCEPT !.preFilteredAddresses = <<address>> \o @]
    ELSE [rest EXCEPT !.unknownContractStatus = <<address>> \o @]

\* one pass of the first loop of selectRandomAddresses: a cached contract and
\* an address in the wallet cache are skipped, an address with a cached status
\* is kept, any other address needs its status checked
Classify(address, rest, cache, cmap) ==
    IF /\ isContractAddressInCache(cmap, toLowerCase(address))
       /\ getContractAddressFromCache(cmap, toLowerCase(address)) = TRUE
    THEN rest
    ELSE IF isWalletAddressInCache(cache, toLowerCase(address))
    THEN rest
    ELSE IF isContractAddressInCache(cmap, toLowerCase(address))
    THEN [rest EXCEPT !.preFilteredAddresses = <<address>> \o @]
    ELSE [rest EXCEPT !.unknownContractStatus = <<address>> \o @]

RECURSIVE PartitionCandidates(_, _, _)
PartitionCandidates(addresses, cache, cmap) ==
    IF addresses = <<>>
    THEN [preFilteredAddresses |-> <<>>, unknownContractStatus |-> <<>>]
    ELSE Classify(Head(addresses),
                  PartitionCandidates(Tail(addresses), cache, cmap),
                  cache, cmap)

\* for (const result of results) if (!result.isContract) preFilteredAddresses.push(result.address)
RECURSIVE NonContracts(_, _)
NonContracts(batch, results) ==
    IF batch = <<>> THEN <<>>
    ELSE (IF Head(results) = "wallet" THEN <<Head(batch)>> ELSE <<>>)
         \o NonContracts(Tail(batch), Tail(results))

\* the probing loop of selectRandomAddresses from the moment Promise.all of
\* the sub-batch at s.i has resolved, up to the next await on an outstanding
\* probe (done = FALSE) or to the end of the loop (done = TRUE)
RECURSIVE ContinueProbing(_, _, _)
AwaitProbes(s, p) ==
    IF Outstanding(p.results) # {}
    THEN [done |-> FALSE, cmap |-> p.cmap, exp |-> p.exp,
          sel |-> [s EXCEPT !.results = p.results]]
    ELSE ContinueProbing([s EXCEPT !.results = p.results], p.cmap, p.exp)

\* the probing loop without its break: every sub-batch is probed
AfterJoin_NoEarlyStop(s, pool, cmap, exp) ==
    IF s.i + batchSize >= Len(s.unknownContractStatus)
    THEN [done |-> TRUE, cmap |-> cmap, exp |-> exp,
          sel |-> [s EXCEPT !.preFilteredAddresses = pool]]
    ELSE AwaitProbes(
             [s EXCEPT !.preFilteredAddresses = pool, !.i = s.i + batchSize],
             StartProbes(cmap, exp,
                 Slice(s.unknownContractStatus, s.i + batchSize, batchSize)))

\* the end of a sub-batch of the probing loop, pool being the eligible
\* addresses gathered so far: the loop ends at count * 2 eligible addresses
\* or after the last sub-batch, else the next sub-batch is probed
AfterJoin(s, pool, cmap, exp) ==
    IF \/ Len(pool) >= s.count * 2
       \/ s.i + batchSize >= Len(s.unknownContractStatus)
    THEN [done |-> TRUE, cmap |-> cmap, exp |-> exp,
          sel |-> [s EXCEPT !.preFilteredAddresses = pool]]
    ELSE AwaitProbes(
             [s EXCEPT !.preFilteredAddresses = pool, !.i = s.i + batchSize],
             StartProbes(cmap, exp,
                 Slice(s.unknownContractStatus, s.i + batchSize, batchSize)))

ContinueProbing(s, cmap, exp) ==
    AfterJoin(s,
              s.preFilteredAddresses
                  \o NonContracts(Slice(s.unknownContractStatus, s.i, batchSize),
                                  s.results),
              cmap, exp)

\* no two entries of the list are the same address
Distinct(addresses) ==
    \A i, j \in 1..Len(addresses) :
        i # j => toLowerCase(addresses[i]) # toLowerCase(addresses[j])

\* selectRandomAddresses without the test of the cached candidates against
\* count * 2: every unknown candidate is probed
BeginProbing_AlwaysProbes(s, cmap, exp) ==
    IF Len(s.unknownContractStatus) = 0
    THEN [done |-> TRUE, cmap |-> cmap, exp |-> exp, sel |-> s]
    ELSE AwaitProbes(s, StartProbes(cmap, exp,
                            Slice(s.unknownContractStatus, 0, batchSize)))

\* selectRandomAddresses(addresses, count) from its call up to its first
\* await (done = FALSE) or, when nothing is to be probed, to the end of the
\* probing branch (done = TRUE)
BeginProbing(s, cmap, exp) ==
    IF \/ Len(s.preFilteredAddresses) >= s.count * 2
       \/ Len(s.unknownContractStatus) = 0
    THEN [done |-> TRUE, cmap |-> cmap, exp |-> exp, sel |-> s]
    ELSE AwaitProbes(s, StartProbes(cmap, exp,
                            Slice(s.unknownContractStatus, 0, batchSize)))

NewCall(addresses, count, caller, parts, cache) ==
    [pc |-> "probing", caller |-> caller, count |-> count,
     preFilteredAddresses |-> parts.preFilteredAddresses,
     unknownContractStatus |-> parts.unknownContractStatus,
     i |-> 0, results |-> <<>>,
     distinctInput |-> Distinct(addresses),
     calledAt |-> currentWalletAddressCacheBatch,
     cacheAtCall |-> cache]

BeginSelect(addresses, count, caller, cache, cmap, exp) ==
    BeginProbing(NewCall(addresses, count, caller,
                         PartitionCandidates(addresses, cache, cmap), cache),
                 cmap, exp)

\* the values Math.floor(Math.random() * (i + 1)) can take in the loop of
\* shuffleAddresses over n entries, positions counted from 1
ShuffleChoices(n) == {js \in [2..n -> 1..n] : \A i \in 2..n : js[i] <= i}

RECURSIVE shuffleAddresses(_, _, _)
RECURSIVE shuffleAddresses_Overwrites(_, _, _)
\* the shuffle copying entry js[i] over entry i without the copy back
shuffleAddresses_Overwrites(addresses, i, js) ==
    IF i < 2 THEN addresses
    ELSE shuffleAddresses_Overwrites(
             [addresses EXCEPT ![i] = addresses[js[i]]], i - 1, js)

\* shuffleAddresses: for i from the last position down to the second, swap
\* entries i and js[i]
shuffleAddresses(addresses, i, js) ==
    IF i < 2 THEN addresses
    ELSE shuffleAddresses(
             [addresses EXCEPT ![i] = addresses[js[i]], ![js[i]] = addresses[i]],
             i - 1, js)

RECURSIVE RegisterAll(_, _)
RECURSIVE RegisterAll_SkipsLast(_, _)
\* the registration loop stopping one entry short
RegisterAll_SkipsLast(w, selected) ==
    IF Len(selected) <= 1 THEN w
    ELSE RegisterAll_SkipsLast(
             addToWalletAddressCache(w.cache, w.exp, Head(selected),
                 currentWalletAddressCacheBatch),
             Tail(selected))

\* selected.forEach((addr) => addToWalletAddressCache(addr))
RegisterAll(w, selected) ==
    IF selected = <<>> THEN w
    ELSE RegisterAll(addToWalletAddressCache(w.cache, w.exp, Head(selected),
                         currentWalletAddressCacheBatch),
                     Tail(selected))

\* the end of selectRandomAddresses: shuffle the pool, take the first
\* min(count, length) entries
SelectFrom(pool, count, js) ==
    IF Len(pool) = 0 THEN <<>>
    ELSE SubSeq(shuffleAddresses(pool, Len(pool), js), 1, Min(count, Len(pool)))

\* a selection that has reached the end of its probing branch can return
\* only while the cacheCleanup task can still fire cooldownBatches times and
\* once more within the bound of the model
CanRegister == currentWalletAddressCacheBatch + cooldownBatches < MaxBatch

\* the cacheCleanup task fires, the counters staying within limit
cacheCleanupUpTo(limit) ==
    /\ currentWalletAddressCacheBatch < limit
    /\ currentWalletAddressCacheBatch' = currentWalletAddressCacheBatch + 1
    /\ currentContractAddressCacheBatch' = currentContractAddressCacheBatch + 1
    /\ LET w == cleanupWalletAddressCache(walletAddressCache,
                    walletAddressExpirationCache,
                    currentWalletAddressCacheBatch + 1)
           c == cleanupContractAddressCache(contractAddressCache,
                    contractAddressExpirationCache,
                    currentWalletAddressCacheBatch + 1)
       IN /\ walletAddressCache' = w.cache
          /\ walletAddressExpirationCache' = w.exp
          /\ contractAddressCache' = c.cmap
          /\ contractAddressExpirationCache' = c.exp
    /\ UNCHANGED <<timeVars, blockVars, cooldownBatches, queueVars, selVars, monitorVars>>

cacheCleanup == cacheCleanupUpTo(MaxBatch)

(***************************************************************************)
(* blockMonitor.js, addressParser.js and main.js                           *)
(***************************************************************************)
\* tx.to of a transaction without a receiver
NoAddress == "null"

\* addresses.add(x) without toLowerCase
RECURSIVE AddAll_NoLowerCase(_, _)
AddAll_NoLowerCase(unique, raw) ==
    IF raw = <<>> THEN unique
    ELSE AddAll_NoLowerCase(IF Head(raw) = NoAddress \/ Head(raw) \in Range(unique)
                            THEN unique ELSE Append(unique, Head(raw)),
                            Tail(raw))

\* if (x) addresses.add(x.toLowerCase()) over a list of raw addresses: the
\* Set keeps the first occurrence of each address, in order
RECURSIVE AddAll(_, _)
AddAll(unique, raw) ==
    IF raw = <<>> THEN unique
    ELSE AddAll(IF Head(raw) = NoAddress \/ toLowerCase(Head(raw)) \in Range(unique)
                THEN unique ELSE Append(unique, toLowerCase(Head(raw))),
                Tail(raw))

\* extractAddressesFromBlocks(blocks); a block is the list of the from and
\* to addresses of its transactions
RECURSIVE extractAddressesFromBlocks(_, _)
extractAddressesFromBlocks(unique, blocks) ==
    IF blocks = <<>> THEN unique
    ELSE extractAddressesFromBlocks(AddAll(unique, Head(blocks)), Tail(blocks))

\* filterContractAddresses from the moment Promise.allSettled of the
\* sub-batch at p.i has resolved, up to its next await (done = FALSE) or to
\* its end (done = TRUE)
RECURSIVE ContinuePreCheck(_, _, _)
AwaitPreCheck(p, r) ==
    IF Outstanding(r.results) # {}
    THEN [done |-> FALSE, cmap |-> r.cmap, exp |-> r.exp,
          pre |-> [p EXCEPT !.results = r.results]]
    ELSE ContinuePreCheck([p EXCEPT !.results = r.results], r.cmap, r.exp)

ContinuePreCheck(p, cmap, exp) ==
    IF p.i + batchSize >= Len(p.addresses)
    THEN [done |-> TRUE, cmap |-> cmap, exp |-> exp, pre |-> p]
    ELSE AwaitPreCheck([p EXCEPT !.i = p.i + batchSize],
                       StartProbes(cmap, exp,
                           Slice(p.addresses, p.i + batchSize, batchSize)))

\* filterContractAddresses(addresses) from its call up to its first await or
\* to its end
filterContractAddresses(id, addresses, cmap, exp) ==
    IF Len(addresses) = 0
    THEN [done |-> TRUE, cmap |-> cmap, exp |-> exp, pre |-> <<>>]
    ELSE AwaitPreCheck([id |-> id, addresses |-> addresses, i |-> 0,
                        results |-> <<>>],
                       StartProbes(cmap, exp, Slice(addresses, 0, batchSize)))

\* the contract cache and the running pre-checks after r
PreCheckStep(r, others) ==
    /\ contractAddressCache' = r.cmap
    /\ contractAddressExpirationCache' = r.exp
    /\ preChecks' = IF r.done THEN others ELSE others \cup {r.pre}

\* a checkForNewBlocks call that runs from start to end with no other call
\* in between and finds one new block: its addresses are pre-checked without
\* waiting for the result, and the block is put into the buffer
checkForNewBlocks(block) ==
    /\ polls < MaxBlocks
    /\ fetches = {}
    /\ polls' = polls + 1
    /\ latestBlock' = lastProcessedBlock + 1
    /\ PreCheckStep(filterContractAddresses(Len(pushed) + 1,
                        extractAddressesFromBlocks(<<>>, <<block>>),
                        contractAddressCache, contractAddressExpirationCache),
                    preChecks)
    /\ newBlocksBuffer' = Append(newBlocksBuffer, block)
    /\ pushed' = Append(pushed, lastProcessedBlock + 1)
    /\ lastProcessedBlock' = lastProcessedBlock + 1
    /\ UNCHANGED <<timeVars, fetches, handed, cooldownBatches, walletAddressCache,
                             walletAddressExpirationCache, currentWalletAddressCacheBatch,
                             currentContractAddressCacheBatch, queueVars, selVars,
                             isProcessingBlocks>>

\* a probe of a running pre-check settles
PreCheckResumed(p, k, r) ==
    IF Outstanding(p.results) = {k}
    THEN ContinuePreCheck([p EXCEPT !.results[k] = r.result], r.cmap, r.exp)
    ELSE [done |-> FALSE, cmap |-> r.cmap, exp |-> r.exp,
          pre |-> [p EXCEPT !.results[k] = r.result]]

PreCheckProbeSettles(p, k, outcome) ==
    /\ p \in preChecks
    /\ k \in Outstanding(p.results)
    /\ outcome \in ProbeOutcomes(Slice(p.addresses, p.i, batchSize)[k])
    /\ PreCheckStep(
           PreCheckResumed(p, k,
               isContractAddressResume(contractAddressCache,
                   contractAddressExpirationCache,
                   Slice(p.addresses, p.i, batchSize)[k], outcome)),
           preChecks \ {p})
    /\ UNCHANGED <<timeVars, blockVars, cooldownBatches, walletAddressCache,
                             walletAddressExpirationCache, currentWalletAddressCacheBatch,
                             currentContractAddressCacheBatch, queueVars, selVars,
                             newBlocksBuffer, isProcessingBlocks, polls>>

\* the return where processBlocks counts a cycle without a selection as a
\* batch
SelectReturnsWith_CountsSkippedCycle(s, selected, w) ==
    /\ walletAddressCache' = w.cache
    /\ walletAddressExpirationCache' = w.exp
    /\ sel' = SelIdle
    /\ lastCall' = [selected |-> selected, calledAt |-> s.calledAt,
                    returnedAt |-> currentWalletAddressCacheBatch,
                    n |-> lastCall.n + 1, previous |-> returnedAt,
                    cacheAtCall |-> s.cacheAtCall,
                    distinctInput |-> s.distinctInput,
                    pool |-> BagOf(s.preFilteredAddresses), count |-> s.count]
    /\ returnedAt' = [a \in Addresses |->
                        IF a \in {toLowerCase(x) : x \in Range(selected)}
                        THEN currentWalletAddressCacheBatch
                        ELSE returnedAt[a]]
    /\ IF s.caller = "processBlocks"
       THEN /\ IF Len(selected) = 0
               THEN /\ currentBatch' = currentBatch + 1
                    /\ UNCHANGED <<isProcessingSend, transactionQueue, active,
                                   pendingSends, dropCount, submitted,
                                   startOrder>>
               ELSE sendTokens(selected)
            /\ isProcessingBlocks' = FALSE
       ELSE UNCHANGED <<queueVars, isProcessingBlocks>>

\* selectRandomAddresses returns selected to its caller: the wallet cache is
\* written and the call is recorded; processBlocks hands a non-empty
\* selection to sendTokens and processBlockBuffer clears its flag
SelectReturnsWith(s, selected, w) ==
    /\ walletAddressCache' = w.cache
    /\ walletAddressExpirationCache' = w.exp
    /\ sel' = SelIdle
    /\ lastCall' = [selected |-> selected, calledAt |-> s.calledAt,
                    returnedAt |-> currentWalletAddressCacheBatch,
                    n |-> lastCall.n + 1, previous |-> returnedAt,
                    cacheAtCall |-> s.cacheAtCall,
                    distinctInput |-> s.distinctInput,
                    pool |-> BagOf(s.preFilteredAddresses), count |-> s.count]
    /\ returnedAt' = [a \in Addresses |->
                        IF a \in {toLowerCase(x) : x \in Range(selected)}
                        THEN currentWalletAddressCacheBatch
                        ELSE returnedAt[a]]
    /\ IF s.caller = "processBlocks"
       THEN /\ IF Len(selected) = 0
               THEN UNCHANGED queueVars
               ELSE sendTokens(selected)
            /\ isProcessingBlocks' = FALSE
       ELSE UNCHANGED <<queueVars, isProcessingBlocks>>

SelectReturns(s, selected) ==
    SelectReturnsWith(s, selected,
        RegisterAll([cache |-> walletAddressCache,
                     exp |-> walletAddressExpirationCache], selected))

\* the call has come to the end of its probing branch (b.done) and returns,
\* or awaits probes
SelectStep(b) ==
    /\ contractAddressCache' = b.cmap
    /\ contractAddressExpirationCache' = b.exp
    /\ IF b.done
       THEN /\ CanRegister
            /\ \E js \in ShuffleChoices(Len(b.sel.preFilteredAddresses)) :
                   SelectReturns(b.sel,
                       SelectFrom(b.sel.preFilteredAddresses, b.sel.count, js))
       ELSE /\ sel' = b.sel
            /\ UNCHANGED <<walletAddressCache, walletAddressExpirationCache,
                           lastCall, returnedAt, queueVars>>
            /\ isProcessingBlocks' = (b.sel.caller = "processBlocks")

\* the numbers of the blocks in the buffer: the blocks pushed last
BufferedNumbers ==
    SubSeq(pushed, Len(pushed) - Len(newBlocksBuffer) + 1, Len(pushed))

\* processBlockBuffer without the test of isProcessingBlocks
CanProcessBlockBuffer_IgnoresFlag == ~(Len(newBlocksBuffer) = 0)

\* processBlockBuffer gets past its first test
CanProcessBlockBuffer == ~(isProcessingBlocks \/ Len(newBlocksBuffer) = 0)

\* the processDrop task fires: processBlockBuffer takes the buffered blocks
\* and processBlocks selects from their addresses
processBlockBuffer ==
    /\ CanProcessBlockBuffer
    /\ lastCall.n < MaxSelections
    /\ newBlocksBuffer' = <<>>
    /\ handed' = handed \o BufferedNumbers
    /\ IF Len(extractAddressesFromBlocks(<<>>, newBlocksBuffer)) = 0
       THEN UNCHANGED <<cacheVars, queueVars, selVars, isProcessingBlocks>>
       ELSE /\ SelectStep(BeginSelect(
                   extractAddressesFromBlocks(<<>>, newBlocksBuffer),
                   addressesPerBatch, "processBlocks", walletAddressCache,
                   contractAddressCache, contractAddressExpirationCache))
            /\ UNCHANGED <<currentWalletAddressCacheBatch,
                           currentContractAddressCacheBatch>>
    /\ UNCHANGED <<timeVars, lastProcessedBlock, latestBlock, fetches, pushed,
                   cooldownBatches, preChecks, polls>>

\* the selection going on with the loop at the first probe that settles, as
\* with Promise.race in place of Promise.all
SelectResumed_NoJoin(k, r) ==
    ContinueProbing([sel EXCEPT !.results[k] = r.result], r.cmap, r.exp)

\* a probe of the running selection settles
SelectResumed(k, r) ==
    IF Outstanding(sel.results) = {k}
    THEN ContinueProbing([sel EXCEPT !.results[k] = r.result], r.cmap, r.exp)
    ELSE [done |-> FALSE, cmap |-> r.cmap, exp |-> r.exp,
          sel |-> [sel EXCEPT !.results[k] = r.result]]

SelectProbeSettles(k, outcome) ==
    /\ sel.pc = "probing"
    /\ k \in Outstanding(sel.results)
    /\ outcome \in ProbeOutcomes(
                       Slice(sel.unknownContractStatus, sel.i, batchSize)[k])
    /\ SelectStep(
           SelectResumed(k,
               isContractAddressResume(contractAddressCache,
                   contractAddressExpirationCache,
                   Slice(sel.unknownContractStatus, sel.i, batchSize)[k],
                   outcome)))
    /\ UNCHANGED <<timeVars, blockVars, cooldownBatches, currentWalletAddressCacheBatch,
                             currentContractAddressCacheBatch, newBlocksBuffer,
                             preChecks, polls>>

\* the blocks checkForNewBlocks can find: a block without transactions, and
\* blocks of one transaction given by its from and to addresses
BlockInputs == {<<>>, <<"a", "b">>, <<"A", "c">>}

ProbeAnswers == {"code", "empty", "error"}

Init ==
    /\ cooldownBatches \in 0..MaxCooldown
    /\ walletAddressCache = {}
    /\ walletAddressExpirationCache = <<>>
    /\ contractAddressCache = <<>>
    /\ contractAddressExpirationCache = <<>>
    /\ currentWalletAddressCacheBatch = 1
    /\ currentContractAddressCacheBatch = 1
    /\ QueueStart
    /\ SelectorStart
    /\ MonitorStart
    /\ TimeRunning

Next ==
    \/ \E block \in BlockInputs : checkForNewBlocks(block)
    \/ \E p \in preChecks, k \in 1..batchSize, outcome \in ProbeAnswers :
           PreCheckProbeSettles(p, k, outcome)
    \/ processBlockBuffer
    \/ \E k \in 1..batchSize, outcome \in ProbeAnswers :
           SelectProbeSettles(k, outcome)
    \/ cacheCleanup
    \/ processTransactionQueue
    \/ \E s \in pendingSends, ok \in BOOLEAN : SendSettles(s[1], s[2], ok)
    \/ \E c \in active : BatchSettles(c)

Spec == Init /\ [][Next]_vars

\* the cacheCleanup task is a timer that keeps firing
LiveSpec == Init /\ [][Next]_vars /\ WF_vars(cacheCleanup)

(***************************************************************************)
(* The pre-checks of arriving blocks and the cacheCleanup task, the        *)
(* counters running far enough for contract entries to expire.             *)
(***************************************************************************)
ContractExpiryNext ==
    \/ \E block \in BlockInputs : checkForNewBlocks(block)
    \/ \E p \in preChecks, k \in 1..batchSize, outcome \in ProbeAnswers :
           PreCheckProbeSettles(p, k, outcome)
    \/ cacheCleanupUpTo(MaxContractBatch)

ContractExpirySpec == Init /\ [][ContractExpiryNext]_vars

(***************************************************************************)
(* selectRandomAddresses called directly, with any candidates list and     *)
(* any count, between ticks of the cacheCleanup task.                      *)
(***************************************************************************)
\* the lists of at most MaxCandidates raw addresses
CandidateLists == UNION {[1..n -> RawAddresses] : n \in 0..MaxCandidates}

CallSelectRandomAddresses(addresses, count) ==
    /\ sel.pc = "idle"
    /\ lastCall.n < MaxSelections
    /\ SelectStep(BeginSelect(addresses, count, "direct", walletAddressCache,
                      contractAddressCache, contractAddressExpirationCache))
    /\ UNCHANGED <<timeVars, blockVars, cooldownBatches, currentWalletAddressCacheBatch,
                             currentContractAddressCacheBatch, newBlocksBuffer,
                             preChecks, polls>>

SelectNext ==
    \/ \E addresses \in CandidateLists, count \in 0..MaxCount :
           CallSelectRandomAddresses(addresses, count)
    \/ \E k \in 1..batchSize, outcome \in ProbeAnswers :
           SelectProbeSettles(k, outcome)
    \/ cacheCleanup

SelectSpec == Init /\ [][SelectNext]_vars

(***************************************************************************)
(* The cache module driven through its exported functions, with any batch  *)
(* arguments: the wallet cache alone, and the contract cache alone.        *)
(***************************************************************************)
CacheInit ==
    /\ cooldownBatches \in 0..MaxCooldown
    /\ walletAddressCache = {}
    /\ walletAddressExpirationCache = <<>>
    /\ contractAddressCache = <<>>
    /\ contractAddressExpirationCache = <<>>
    /\ currentWalletAddressCacheBatch = 1
    /\ currentContractAddressCacheBatch = 1
    /\ QueueStart
    /\ SelectorStart
    /\ MonitorStart
    /\ TimeStart

CallAddToWalletAddressCache(address, atBatch) ==
    LET r == addToWalletAddressCache(walletAddressCache,
                 walletAddressExpirationCache, address, atBatch)
    IN /\ walletAddressCache' = r.cache
       /\ walletAddressExpirationCache' = r.exp
       /\ UNCHANGED <<timeVars, blockVars, cooldownBatches, contractAddressCache,
                                contractAddressExpirationCache,
                                currentWalletAddressCacheBatch,
                                currentContractAddressCacheBatch, queueVars, selVars, monitorVars>>

CallUpdateContractAddressCache(address, atBatch, isNewContract) ==
    LET r == updateContractAddressCache(contractAddressCache,
                 contractAddressExpirationCache, address, atBatch,
                 isNewContract)
    IN /\ contractAddressCache' = r.cmap
       /\ contractAddressExpirationCache' = r.exp
       /\ UNCHANGED <<timeVars, blockVars, cooldownBatches, walletAddressCache,
                                walletAddressExpirationCache,
                                currentWalletAddressCacheBatch,
                                currentContractAddressCacheBatch, queueVars, selVars, monitorVars>>

CallCleanupContractAddressCache(atBatch) ==
    LET r == cleanupContractAddressCache(contractAddressCache,
                 contractAddressExpirationCache, atBatch)
    IN /\ contractAddressCache' = r.cmap
       /\ contractAddressExpirationCache' = r.exp
       /\ UNCHANGED <<timeVars, blockVars, cooldownBatches, walletAddressCache,
                                walletAddressExpirationCache,
                                currentWalletAddressCacheBatch,
                                currentContractAddressCacheBatch, queueVars, selVars, monitorVars>>

CallCleanupWalletAddressCache(atBatch, cleanupContracts) ==
    LET w == cleanupWalletAddressCache(walletAddressCache,
                 walletAddressExpirationCache, atBatch)
        c == IF cleanupContracts
             THEN cleanupContractAddressCache(contractAddressCache,
                      contractAddressExpirationCache, atBatch)
             ELSE [cmap |-> contractAddressCache,
                   exp |-> contractAddressExpirationCache]
    IN /\ walletAddressCache' = w.cache
       /\ walletAddressExpirationCache' = w.exp
       /\ contractAddressCache' = c.cmap
       /\ contractAddressExpirationCache' = c.exp
       /\ UNCHANGED <<timeVars, blockVars, cooldownBatches, currentWalletAddressCacheBatch,
                                currentContractAddressCacheBatch, queueVars, selVars, monitorVars>>

\* the batches a bucket can be keyed by in these runs
WalletBatches == 1..(MaxBatchArg + MaxCooldown)

ContractBatches == {b + w * 10 : b \in 1..MaxBatchArg, w \in 0..MaxCooldown}

WalletCacheNext ==
    \/ \E s \in RawAddresses, b \in 1..MaxBatchArg :
           CallAddToWalletAddressCache(s, b)
    \/ \E b \in WalletBatches, c \in BOOLEAN :
           CallCleanupWalletAddressCache(b, c)

WalletCacheSpec == CacheInit /\ [][WalletCacheNext]_vars

ContractCacheNext ==
    \/ \E s \in RawAddresses, b \in 1..MaxBatchArg, n \in BOOLEAN :
           CallUpdateContractAddressCache(s, b, n)
    \/ \E b \in ContractBatches : CallCleanupContractAddressCache(b)
    \/ \E b \in ContractBatches : CallCleanupWalletAddressCache(b, TRUE)

ContractCacheSpec == CacheInit /\ [][ContractCacheNext]_vars

\* blocks of one transaction, with and without a receiver
ExtractInputs ==
    {<<>>} \cup {<<f, t>> : f \in RawAddresses, t \in RawAddresses \cup {NoAddress}}

\* the monitor alone: blocks arrive and their addresses are pre-checked
ExtractNext ==
    \/ \E block \in ExtractInputs : checkForNewBlocks(block)
    \/ \E p \in preChecks, k \in 1..batchSize, outcome \in ProbeAnswers :
           PreCheckProbeSettles(p, k, outcome)

ExtractSpec == Init /\ [][ExtractNext]_vars

\* filterContractAddresses(addresses) called on a list of its own, the
\* pre-checks numbered as they start
CallFilterContractAddresses(addresses) ==
    /\ polls < MaxBlocks
    /\ polls' = polls + 1
    /\ PreCheckStep(filterContractAddresses(polls + 1, addresses,
                        contractAddressCache, contractAddressExpirationCache),
                    preChecks)
    /\ UNCHANGED <<timeVars, blockVars, cooldownBatches, walletAddressCache,
                             walletAddressExpirationCache, currentWalletAddressCacheBatch,
                             currentContractAddressCacheBatch, queueVars, selVars,
                             newBlocksBuffer, isProcessingBlocks>>

\* lists one address longer than a sub-batch, starting with all the
\* addresses there are in some order
ProbeLists ==
    {q \in [1..(batchSize + 1) -> Addresses] :
        \A i, j \in 1..Min(batchSize + 1, Cardinality(Addresses)) :
            i # j => q[i] # q[j]}

\* the two classification loops side by side, their probes settling in any
\* order: pre-checks of up to MaxBlocks lists and one selection
ProbeNext ==
    \/ \E addresses \in ProbeLists : CallFilterContractAddresses(addresses)
    \/ \E p \in preChecks, k \in 1..batchSize, outcome \in ProbeAnswers :
           PreCheckProbeSettles(p, k, outcome)
    \/ \E addresses \in ProbeLists, count \in 1..MaxCount :
           lastCall.n = 0 /\ CallSelectRandomAddresses(addresses, count)
    \/ \E k \in 1..batchSize, outcome \in ProbeAnswers :
           SelectProbeSettles(k, outcome)

ProbeSpec == Init /\ [][ProbeNext]_vars

\* the transactions of block n of the chain, as their from and to addresses
BlockAt(n) == IF n % 2 = 1 THEN <<"a", "b">> ELSE <<"A", "c">>

\* the block numbers first, ..., last
RECURSIVE NumbersInRange(_, _)
NumbersInRange(first, last) ==
    IF first > last THEN <<>>
    ELSE <<first>> \o NumbersInRange(first + 1, last)

\* the blocks with the given numbers
RECURSIVE BlocksOf(_)
BlocksOf(numbers) ==
    IF numbers = <<>> THEN <<>>
    ELSE <<BlockAt(Head(numbers))>> \o BlocksOf(Tail(numbers))

\* for (const block of newBlocks) filterContractAddresses(
\* extractAddressesFromBlocks([block])), no call awaited: the contract cache
\* and the pre-checks left running, started being those of the blocks before
RECURSIVE PreCheckBlocks(_, _, _, _, _)
PreCheckBlocksAfter(r, numbers, id, started) ==
    PreCheckBlocks(numbers, id, r.cmap, r.exp,
                   IF r.done THEN started ELSE started \cup {r.pre})

PreCheckBlocks(numbers, id, cmap, exp, started) ==
    IF numbers = <<>>
    THEN [cmap |-> cmap, exp |-> exp, started |-> started]
    ELSE PreCheckBlocksAfter(
             filterContractAddresses(id,
                 extractAddressesFromBlocks(<<>>, <<BlockAt(Head(numbers))>>),
                 cmap, exp),
             Tail(numbers), id + 1, started)

\* a new block is added to the chain
ChainGrows ==
    /\ latestBlock < MaxBlocks
    /\ latestBlock' = latestBlock + 1
    /\ UNCHANGED <<timeVars, lastProcessedBlock, fetches, pushed, handed,
                   cooldownBatches, cacheVars, queueVars, selVars, monitorVars>>

\* the checkNewBlocks timer fires, whether or not an earlier call is still
\* running: checkForNewBlocks up to its await of getLatestBlockNumber
PollStarts ==
    /\ polls < MaxPolls
    /\ polls' = polls + 1
    /\ fetches' = fetches \cup {[id |-> polls + 1, pc |-> "number",
                                  currentBlock |-> 0, first |-> 0]}
    /\ UNCHANGED <<timeVars, lastProcessedBlock, latestBlock, pushed, handed,
                   cooldownBatches, cacheVars, queueVars, selVars,
                   newBlocksBuffer, isProcessingBlocks, preChecks>>

\* getLatestBlockNumber answers the call f: with no new block the call ends,
\* else it asks for the blocks lastProcessedBlock + 1 .. currentBlock
NumberArrives(f) ==
    /\ f \in fetches
    /\ f.pc = "number"
    /\ fetches' = IF latestBlock > lastProcessedBlock
                  THEN (fetches \ {f})
                           \cup {[f EXCEPT !.pc = "blocks",
                                           !.currentBlock = latestBlock,
                                           !.first = lastProcessedBlock + 1]}
                  ELSE fetches \ {f}
    /\ UNCHANGED <<timeVars, lastProcessedBlock, latestBlock, pushed, handed,
                   cooldownBatches, cacheVars, queueVars, selVars, monitorVars>>

\* getLatestBlockNumber or getBlocksInRange fails for the call f: the error
\* is logged and the call ends
FetchFails(f) ==
    /\ f \in fetches
    /\ fetches' = fetches \ {f}
    /\ UNCHANGED <<timeVars, lastProcessedBlock, latestBlock, pushed, handed,
                   cooldownBatches, cacheVars, queueVars, selVars, monitorVars>>

\* the state after the blocks with the given numbers have arrived for the
\* call f, r being their pre-checks
BlocksPushed(f, numbers, r) ==
    /\ contractAddressCache' = r.cmap
    /\ contractAddressExpirationCache' = r.exp
    /\ preChecks' = r.started
    /\ newBlocksBuffer' = newBlocksBuffer \o BlocksOf(numbers)
    /\ pushed' = pushed \o numbers
    /\ lastProcessedBlock' = f.currentBlock
    /\ fetches' = fetches \ {f}

\* getBlocksInRange answers the call f: the blocks are pre-checked and put
\* into the buffer, and lastProcessedBlock becomes the currentBlock of f
BlocksArrive(f) ==
    /\ f \in fetches
    /\ f.pc = "blocks"
    /\ BlocksPushed(f, NumbersInRange(f.first, f.currentBlock),
                    PreCheckBlocks(NumbersInRange(f.first, f.currentBlock),
                                   Len(pushed) + 1, contractAddressCache,
                                   contractAddressExpirationCache, preChecks))
    /\ UNCHANGED <<timeVars, latestBlock, handed, cooldownBatches,
                   walletAddressCache, walletAddressExpirationCache,
                   currentWalletAddressCacheBatch,
                   currentContractAddressCacheBatch, queueVars, selVars,
                   isProcessingBlocks, polls>>

\* the block monitor polling a growing chain, its calls running side by side
PollNext ==
    \/ ChainGrows
    \/ PollStarts
    \/ \E f \in fetches : NumberArrives(f)
    \/ \E f \in fetches : FetchFails(f)
    \/ \E f \in fetches : BlocksArrive(f)
    \/ \E p \in preChecks, k \in 1..batchSize, outcome \in ProbeAnswers :
           PreCheckProbeSettles(p, k, outcome)

PollSpec == Init /\ [][PollNext]_vars

\* both caches driven together
CacheNext == WalletCacheNext \/ ContractCacheNext

CacheSpec == CacheInit /\ [][CacheNext]_vars

(***************************************************************************)
(* Cache invariants                                                        *)
(***************************************************************************)
\* C4: in every state of the wallet cooldown cache reached by calls of
\* addToWalletAddressCache and cleanupWalletAddressCache with any batch
\* arguments, the member set equals the union of the expiry buckets.
C4_WalletMembersAreScheduled ==
    walletAddressCache = Scheduled(walletAddressExpirationCache)

\* an address was moved to a later bucket while another bucket is still
\* scheduled, and a member is left after that
C4_Witness ==
    /\ Len(walletAddressExpirationCache) >= 2
    /\ Cardinality(walletAddressCache) >= 2
    /\ walletAddressExpirationCache[1].batch
           > walletAddressExpirationCache[2].batch

\* C5: in every state of the contract classification cache reached by calls
\* of updateContractAddressCache (isNewContract true or false) and
\* cleanupContractAddressCache, an address is a key of the classification
\* map if and only if it is in some expiry bucket.
C5_ContractKeysAreScheduled ==
    DOMAIN contractAddressCache = Scheduled(contractAddressExpirationCache)

\* C6: in both caches no address is in two expiry buckets at once.
C6_OneBucketPerAddress ==
    \A a \in Addresses :
        /\ Cardinality(BucketsOf(walletAddressExpirationCache, a)) <= 1
        /\ Cardinality(BucketsOf(contractAddressExpirationCache, a)) <= 1

(***************************************************************************)
(* Dispatch queue                                                          *)
(***************************************************************************)
\* C1: at most one send cycle is in flight at any instant: processBatch never
\* runs for two batches at once, and every send that has not settled belongs
\* to the one batch being processed, so a second batch starts sending only
\* after every send of the first has settled.
C1_SingleFlight ==
    /\ Cardinality(active) <= 1
    /\ active # {} => isProcessingSend
    /\ \A s \in pendingSends : \E c \in active : c.id = s[1]

\* a batch that had to wait is being sent from the queue while another
\* batch is still waiting behind it
C1_Witness ==
    /\ \E c \in active : c.via = "queue" /\ c.id = 2
    /\ pendingSends # {}
    /\ Len(transactionQueue) >= 1

\* C3: batches start sending in submission order (FIFO, no overtaking).
C3_FifoStartOrder ==
    \A i, j \in 1..Len(startOrder) :
        i < j => startOrder[i] < startOrder[j]

(***************************************************************************)
(* The selection cycle                                                     *)
(***************************************************************************)
\* the addresses of a returned selection
Returned(selected) == {toLowerCase(x) : x \in Range(selected)}

\* C2: an address returned while the wallet batch counter was B is not
\* returned again by a selection called while the counter is below
\* B + cooldownBatches.
C2_NoReselectionInWindow ==
    \A a \in Returned(lastCall.selected) :
        lastCall.previous[a] # 0 =>
            lastCall.calledAt >= lastCall.previous[a] + cooldownBatches

C2_Witness ==
    /\ cooldownBatches = 1
    /\ \E a \in Returned(lastCall.selected) :
           /\ lastCall.previous[a] # 0
           /\ lastCall.calledAt = lastCall.previous[a] + cooldownBatches
    /\ polls = MaxBlocks

\* C7 as stated: for every candidates list, one call returns no address twice
\* and no address that was in the wallet cache when the call was made.
C7_NoDuplicateNoCooldown ==
    /\ Distinct(lastCall.selected)
    /\ Returned(lastCall.selected) \cap lastCall.cacheAtCall = {}

\* C7 amended: for a candidates list without repeated addresses, one call
\* returns no address twice; for every candidates list it returns no address
\* that was in the wallet cache when the call was made.
C7_NoDuplicateFromDistinctInput ==
    /\ lastCall.distinctInput => Distinct(lastCall.selected)
    /\ Returned(lastCall.selected) \cap lastCall.cacheAtCall = {}

C7_Witness ==
    /\ lastCall.distinctInput
    /\ Len(lastCall.selected) = MaxCount
    /\ lastCall.cacheAtCall # {}
    /\ lastCall.n = MaxSelections

\* C8 as stated: when a call returns, every returned address is in the wallet
\* cache and scheduled in the bucket (counter at the call) + cooldownBatches.
C8_RegisteredAtCallBatch ==
    [][lastCall'.n # lastCall.n =>
          \A a \in Returned(lastCall'.selected) :
              /\ isWalletAddressInCache(walletAddressCache', a)
              /\ FindExpirationBatch(walletAddressExpirationCache', a)
                     = {lastCall'.calledAt + cooldownBatches}]_vars

\* C8 amended: when a call returns, every returned address is in the wallet
\* cache and scheduled in the bucket (counter at the return) + cooldownBatches.
C8_RegisteredAtReturnBatch ==
    [][lastCall'.n # lastCall.n =>
          \A a \in Returned(lastCall'.selected) :
              /\ isWalletAddressInCache(walletAddressCache', a)
              /\ FindExpirationBatch(walletAddressExpirationCache', a)
                     = {lastCall'.returnedAt + cooldownBatches}]_vars

C8_Witness ==
    /\ lastCall.calledAt < lastCall.returnedAt
    /\ lastCall.returnedAt = currentWalletAddressCacheBatch
    /\ \E a \in Returned(lastCall.selected) :
           /\ isWalletAddressInCache(walletAddressCache, a)
           /\ FindExpirationBatch(walletAddressExpirationCache, a)
                  = {lastCall.returnedAt + cooldownBatches}

\* C9: with cooldownBatches >= 1, an address registered when the counter was
\* B is in the wallet cache at every counter value below B + cooldownBatches
\* and is not in it from B + cooldownBatches on.
C9_InCooldownExactlyInWindow ==
    cooldownBatches >= 1 =>
        \A a \in Addresses :
            returnedAt[a] # 0 =>
                (isWalletAddressInCache(walletAddressCache, a)
                    <=> currentWalletAddressCacheBatch
                            < returnedAt[a] + cooldownBatches)

C9_Witness ==
    /\ cooldownBatches = 2
    /\ currentWalletAddressCacheBatch = 3
    /\ \E a \in Addresses :
           /\ returnedAt[a] = 1
           /\ ~isWalletAddressInCache(walletAddressCache, a)

EventualExpiryWithCooldown ==
    \A a \in Addresses :
        (cooldownBatches >= 1 /\ a \in walletAddressCache)
            ~> (a \notin walletAddressCache)


(***************************************************************************)
(* Contract classification                                                 *)
(***************************************************************************)
\* the step is the return of a selectRandomAddresses call
SelectionReturned == lastCall'.n # lastCall.n

\* address is held as a contract in the cache cmap
CachedAsContract(cmap, address) ==
    /\ isContractAddressInCache(cmap, address)
    /\ getContractAddressFromCache(cmap, address) = TRUE

\* C11: at the moment selectRandomAddresses returns, none of the returned
\* addresses is held as a contract in the contract cache.
C11_NoCachedContractReturned ==
    [][SelectionReturned =>
          \A a \in Returned(lastCall'.selected) :
              ~CachedAsContract(contractAddressCache', a)]_vars

\* the addresses of the list batch whose probe is outstanding in results
ProbedIn(batch, results) ==
    {toLowerCase(batch[k]) : k \in Outstanding(results)}

\* the addresses for which the step issues a getCode probe: those outstanding
\* in a sub-batch that the selection or a pre-check starts in the step
NewSelectionProbes ==
    IF sel'.pc = "probing" /\ (sel.pc = "idle" \/ sel'.i # sel.i)
    THEN ProbedIn(Slice(sel'.unknownContractStatus, sel'.i, batchSize),
                  sel'.results)
    ELSE {}

NewPreCheckProbes ==
    UNION {ProbedIn(Slice(q.addresses, q.i, batchSize), q.results) :
               q \in {r \in preChecks' :
                         ~\E p \in preChecks : p.id = r.id /\ p.i = r.i}}

\* C12: no getCode probe is issued for an address that is in the contract
\* cache as a contract when isContractAddress is called.
C12_NoProbeForCachedContract ==
    [][\A a \in NewSelectionProbes \cup NewPreCheckProbes :
          ~CachedAsContract(contractAddressCache, a)]_vars

C12_Witness ==
    /\ CachedAsContract(contractAddressCache, "c")
    /\ \E p \in preChecks :
           /\ p.id = MaxBlocks
           /\ p.addresses = <<"a", "c">>
           /\ p.results = <<"pending", "contract">>
    /\ Cardinality(preChecks) = 1
    /\ sel.pc = "idle"

C14_OnlyPositiveResultsCached ==
    [][/\ \A a \in DOMAIN contractAddressCache' :
              contractAddressCache'[a] = TRUE
       /\ \A k \in 1..batchSize, outcome \in {"empty", "error"} :
              /\ SelectProbeSettles(k, outcome)
                     => contractAddressCache' = contractAddressCache
              /\ \A p \in preChecks :
                     PreCheckProbeSettles(p, k, outcome)
                         => contractAddressCache' = contractAddressCache]_vars

C14_Witness ==
    /\ contractAddressCache = [a \in {"c"} |-> TRUE]
    /\ \E p \in preChecks :
           /\ p.addresses = <<"a", "b">>
           /\ p.results = <<"wallet", "pending">>
    /\ sel.pc = "probing"
    /\ sel.unknownContractStatus = <<"a", "b">>
    /\ sel.results = <<"pending", "wallet">>

\* the step is a cache hit of isContractAddress for address a, or a probe of
\* a that found code
ContractTouched(a) ==
    \/ /\ CachedAsContract(contractAddressCache, a)
       /\ \E block \in BlockInputs :
              /\ checkForNewBlocks(block)
              /\ a \in Range(extractAddressesFromBlocks(<<>>, <<block>>))
    \/ \E p \in preChecks, k \in 1..batchSize :
           /\ PreCheckProbeSettles(p, k, "code")
           /\ toLowerCase(Slice(p.addresses, p.i, batchSize)[k]) = a

\* C15: a positive probe or a cache hit while the counter is B leaves the
\* address in the bucket B + 10 * cooldownBatches and in no other bucket; an
\* address leaves the contract cache only in the tick that brings the
\* counter to its bucket, and that tick removes it.
C15_ContractExpiryTenTimesCooldown ==
    [][\A a \in Addresses :
          /\ ContractTouched(a) =>
                 /\ FindExpirationBatch(contractAddressExpirationCache', a)
                        = {currentContractAddressCacheBatch
                               + 10 * cooldownBatches}
                 /\ Cardinality(BucketsOf(contractAddressExpirationCache', a))
                        = 1
                 /\ CachedAsContract(contractAddressCache', a)
          /\ (/\ a \in DOMAIN contractAddressCache
              /\ a \notin DOMAIN contractAddressCache')
                 => currentContractAddressCacheBatch'
                        \in FindExpirationBatch(contractAddressExpirationCache, a)
          /\ (/\ currentContractAddressCacheBatch'
                     # currentContractAddressCacheBatch
              /\ currentContractAddressCacheBatch'
                     \in FindExpirationBatch(contractAddressExpirationCache, a))
                 => /\ a \notin DOMAIN contractAddressCache'
                    /\ a \notin Scheduled(contractAddressExpirationCache')]_vars

C15_Witness ==
    /\ cooldownBatches = 1
    /\ currentContractAddressCacheBatch = 11
    /\ CachedAsContract(contractAddressCache, "c")
    /\ FindExpirationBatch(contractAddressExpirationCache, "c") = {12}

(***************************************************************************)
(* The batch counters                                                      *)
(***************************************************************************)
\* C16: the batch number the caches compute expiry against is the current
\* batch of the batch manager.
C16_CacheBatchIsCurrentBatch ==
    /\ currentWalletAddressCacheBatch = currentBatch
    /\ currentContractAddressCacheBatch = currentBatch

\* the step is the call of selectRandomAddresses
SelectionCalled ==
    /\ sel.pc = "idle"
    /\ sel'.pc = "probing" \/ SelectionReturned

\* the addresses scheduled in the bucket of batch b
BucketAt(m, b) == IF MapHas(m, b) THEN MapGet(m, b) ELSE {}

\* C17: when selectRandomAddresses reads the caches while the counter is B,
\* no address scheduled to expire at batch B is in the wallet cache or in
\* the contract cache.
C17_CleanupBeforeSelection ==
    [][SelectionCalled =>
          /\ BucketAt(walletAddressExpirationCache,
                      currentWalletAddressCacheBatch)
                 \cap walletAddressCache = {}
          /\ BucketAt(contractAddressExpirationCache,
                      currentContractAddressCacheBatch)
                 \cap DOMAIN contractAddressCache = {}]_vars

\* with cooldownBatches >= 1 no selection reads an entry of its own batch
CleanupBeforeSelectionWithCooldown ==
    [][SelectionCalled /\ cooldownBatches >= 1 =>
          /\ BucketAt(walletAddressExpirationCache,
                      currentWalletAddressCacheBatch)
                 \cap walletAddressCache = {}
          /\ BucketAt(contractAddressExpirationCache,
                      currentContractAddressCacheBatch)
                 \cap DOMAIN contractAddressCache = {}]_vars

(***************************************************************************)
(* The result of a selection                                               *)
(***************************************************************************)
\* the number of entries of the bag b
RECURSIVE BagSizeOver(_, _)
BagSizeOver(b, keys) ==
    IF keys = {} THEN 0
    ELSE b[CHOOSE x \in keys : TRUE]
             + BagSizeOver(b, keys \ {CHOOSE x \in keys : TRUE})

BagSize(b) == BagSizeOver(b, DOMAIN b)

\* every entry of the bag b occurs in the bag c at least as often
SubBag(b, c) ==
    \A x \in DOMAIN b : x \in DOMAIN c /\ b[x] <= c[x]

\* C18: a call returns min(count, size of the pool) addresses, all taken
\* from the pool of that call, and the whole pool when the pool has at most
\* count addresses.
C18_ReturnsMinOfCountAndPool ==
    /\ Len(lastCall.selected) = Min(lastCall.count, BagSize(lastCall.pool))
    /\ SubBag(BagOf(lastCall.selected), lastCall.pool)
    /\ BagSize(lastCall.pool) <= lastCall.count
           => BagOf(lastCall.selected) = lastCall.pool

C18_Witness ==
    /\ lastCall.count = MaxCount
    /\ BagSize(lastCall.pool) > lastCall.count
    /\ Cardinality(DOMAIN lastCall.pool) > lastCall.count
    /\ lastCall.previous # [a \in Addresses |-> 0]

\* C19: a call whose pool is empty returns the empty list and leaves the
\* wallet cache as it was, and processBlocks leaves the sender, its queue
\* and the batch counter as they were.
C19_EmptyPoolSkipsCycle ==
    [][SelectionReturned /\ DOMAIN lastCall'.pool = {} =>
          /\ lastCall'.selected = <<>>
          /\ UNCHANGED <<walletAddressCache, walletAddressExpirationCache>>
          /\ UNCHANGED <<isProcessingSend, transactionQueue, active,
                         pendingSends, currentBatch, dropCount>>]_vars

C19_Witness ==
    /\ lastCall.n = MaxSelections
    /\ DOMAIN lastCall.pool = {}
    /\ lastCall.selected = <<>>
    /\ lastCall.cacheAtCall = {"a"}
    /\ submitted = 1
    /\ ~isProcessingBlocks

(***************************************************************************)
(* processBatch                                                            *)
(***************************************************************************)
\* the number of results of the given status
Count(results, status) ==
    Cardinality({i \in 1..Len(results) : results[i] = status})

\* C20: processBatch issues one send per address of the batch, and when it
\* completes it has one result per address, each sent or failed, the two
\* counts adding up to the size of the batch.
C20_OneResultPerAddress ==
    [][/\ \A c \in active' :
              (\A d \in active : d.id # c.id) =>
                  \A i \in 1..Len(c.addresses) : <<c.id, i>> \in pendingSends'
       /\ \A c \in active :
              (\A d \in active' : d.id # c.id) =>
                  /\ Len(c.results) = Len(c.addresses)
                  /\ \A i \in 1..Len(c.results) :
                         c.results[i] \in {"sent", "failed"}
                  /\ Count(c.results, "sent") + Count(c.results, "failed")
                         = Len(c.addresses)]_vars

C20_Witness ==
    \E c \in active :
        /\ c.results = <<"failed", "sent">>
        /\ \A s \in pendingSends : s[1] # c.id
        /\ Len(transactionQueue) >= 1

(***************************************************************************)
(* batchManager                                                            *)
(***************************************************************************)
\* the send cycles that complete in the step
CompletedCycles == {c \in active : \A d \in active' : d.id # c.id}

\* C21: the batch counter starts at 1 and is at every moment 1 plus the number
\* of send cycles that have completed, whichever way their batch was
\* dispatched; a step advances it by the number of cycles that complete in
\* the step and no step lowers it.
C21_BatchCounterCountsCompletedCycles ==
    /\ [](currentBatch = 1 + Len(startOrder) - Cardinality(active))
    /\ [][/\ currentBatch' = currentBatch + Cardinality(CompletedCycles)
          /\ currentBatch' >= currentBatch]_vars

C21_Witness ==
    /\ currentBatch = 3
    /\ submitted = 2
    /\ dropCount = 1
    /\ active = {}
    /\ Len(startOrder) = 2

(***************************************************************************)
(* The sender under an endless stream of submissions.  The counters and    *)
(* the history are left out and batch ids are used again, so that the      *)
(* sender can run for ever in finitely many states.                        *)
(***************************************************************************)
UsedIds ==
    {c.id : c \in active} \cup
    {transactionQueue[i].id : i \in 1..Len(transactionQueue)}

FreshId == CHOOSE id \in 1..(MaxQueue + 1) : id \notin UsedIds

\* one more call of sendTokens with a non-empty batch
SubmitAgain(addresses) ==
    /\ Len(addresses) # 0
    /\ isProcessingSend => Len(transactionQueue) < MaxQueue
    /\ sendTokensBody(FreshId, addresses)
    /\ UNCHANGED <<currentBatch, dropCount, submitted, startOrder>>
    /\ UNCHANGED <<timeVars, blockVars, cooldownBatches, cacheVars, selVars, monitorVars>>

\* the processTransactionQueue task fires and finds work it may start
QueueTick ==
    /\ processTransactionQueueBody
    /\ UNCHANGED <<currentBatch, dropCount, submitted, startOrder>>
    /\ UNCHANGED <<timeVars, blockVars, cooldownBatches, cacheVars, selVars, monitorVars>>

\* a send of the running cycle settles
SendSettlesSome == \E s \in pendingSends, ok \in BOOLEAN : SendSettles(s[1], s[2], ok)

\* the running cycle ends
CycleEnds ==
    /\ \E c \in active : BatchSettlesBody(c)
    /\ UNCHANGED <<currentBatch, dropCount, submitted, startOrder>>
    /\ UNCHANGED <<timeVars, blockVars, cooldownBatches, cacheVars, selVars, monitorVars>>

QueueLiveNext ==
    \/ \E addresses \in BatchInputs : SubmitAgain(addresses)
    \/ QueueTick
    \/ SendSettlesSome
    \/ CycleEnds

\* every send settles and every cycle ends; the queue task, whose timer fires
\* whether or not it finds the sender idle, starts a waiting batch if the
\* sender stays idle long enough for the timer to fire
QueueLiveSpec ==
    /\ QueueInit
    /\ [][QueueLiveNext]_vars
    /\ WF_vars(SendSettlesSome)
    /\ WF_vars(CycleEnds)
    /\ WF_vars(QueueTick)

(***************************************************************************)
(* The start of the program, from startMonDrop() to the running monitor    *)
(***************************************************************************)
StartupInit ==
    /\ cooldownBatches \in {MaxCooldown}
    /\ walletAddressCache = {}
    /\ walletAddressExpirationCache = <<>>
    /\ contractAddressCache = <<>>
    /\ contractAddressExpirationCache = <<>>
    /\ currentWalletAddressCacheBatch = 1
    /\ currentContractAddressCacheBatch = 1
    /\ QueueStart
    /\ SelectorStart
    /\ MonitorStart
    /\ intervals = NoTimeManager.intervals
    /\ timers = NoTimeManager.timers
    /\ timerCount = NoTimeManager.timerCount
    /\ registered = NoTimeManager.registered
    /\ fired = <<>>
    /\ PRIVATE_KEY \in {"", "key"}
    /\ startup = "start"

StartupNext ==
    \/ startMonDrop
    \/ \E ok \in BOOLEAN : startBlockMonitor(ok)
    \/ Signal
    \/ \E t \in timers : TimerFires(t)

StartupSpec == StartupInit /\ [][StartupNext]_vars

(***************************************************************************)
(* The timeManager functions called directly                               *)
(***************************************************************************)
ScheduledNames == {"cacheCleanup", "logCacheStats"}

TaskFns == {"f", "g"}

SchedulerNext ==
    \/ \E n \in ScheduledNames, f \in TaskFns : CallScheduleTask(n, f)
    \/ \E n \in ScheduledNames : CallClearScheduledTask(n)
    \/ CallClearAllScheduledTasks
    \/ \E t \in timers : TimerFires(t)

SchedulerSpec == QueueInit /\ [][SchedulerNext]_vars

\* C22: with the private key missing no task is ever registered, no timer is
\* set, nothing fires, and startMonDrop goes from its start straight to the
\* exit of the process.
C22_MissingKeySchedulesNothing ==
    PRIVATE_KEY = "" =>
        /\ DOMAIN intervals = {}
        /\ timers = {}
        /\ timerCount = 0
        /\ fired = <<>>
        /\ startup \in {"start", "exited"}

C22_Witness ==
    /\ PRIVATE_KEY = ""
    /\ startup = "exited"

\* the timers that are set for the task name
TimersOf(taskName) == {t \in timers : t.taskName = taskName}

\* C23: whatever scheduleTask calls were made, at most one timer is set per
\* task name, it runs the function most recently registered under the name,
\* and every callback that fires runs the function registered last under its
\* name.
C23_OneTimerPerName ==
    /\ [](\A n \in TaskNames :
              /\ Cardinality(TimersOf(n)) <= 1
              /\ \A t \in TimersOf(n) : t.taskFn = registered[n])
    /\ [][fired' # fired =>
              fired'[Len(fired')].taskFn = registered[fired'[Len(fired')].taskName]]_vars

C23_Witness ==
    /\ fired = <<[taskName |-> "cacheCleanup", taskFn |-> "f"],
                 [taskName |-> "cacheCleanup", taskFn |-> "g"]>>
    /\ Cardinality(timers) = 1

\* C24: clearAllScheduledTasks leaves the registry empty and no timer set, so
\* that only a timer that is still registered can fire; clearScheduledTask
\* removes the named task and its timer and leaves every other task and
\* timer as it was.
C24_ClearCancels ==
    /\ [](\A t \in timers :
              /\ t.taskName \in DOMAIN intervals
              /\ intervals[t.taskName] = t.id)
    /\ [][/\ CallClearAllScheduledTasks =>
                 /\ DOMAIN intervals' = {}
                 /\ timers' = {}
          /\ \A n \in ScheduledNames :
                 CallClearScheduledTask(n) =>
                     /\ timers' = timers \ TimersOf(n)
                     /\ DOMAIN intervals' = DOMAIN intervals \ {n}
                     /\ \A m \in DOMAIN intervals' : intervals'[m] = intervals[m]]_vars

C24_Witness ==
    /\ timerCount = 2
    /\ DOMAIN intervals = {"logCacheStats"}
    /\ Cardinality(timers) = 1
    /\ registered["cacheCleanup"] # "none"
    /\ Len(fired) = 2

(***************************************************************************)
(* The pending queue of tokenSender                                        *)
(***************************************************************************)
\* C25: the sender is idle only when no batch is pending: whenever no send
\* cycle is in flight the pending list is empty, a completing cycle having
\* started the oldest pending batch itself.
C25_IdleOnlyWhenNoPending ==
    ~isProcessingSend => Len(transactionQueue) = 0

\* C26: sendTokens with a non-empty batch, called while no cycle is in flight,
\* sets the flag and starts the batch in the same step, one send per address,
\* and leaves the pending list alone; called while a cycle is in flight it
\* appends the batch at the end of the pending list and changes nothing else
\* of the sender: no send is issued and the flag stays set.
C26_SendTokensStartsOrQueues ==
    [][\A addresses \in BatchInputs :
           (Len(addresses) # 0 /\ CallSendTokens(addresses)) =>
               IF isProcessingSend
               THEN /\ transactionQueue' =
                           Append(transactionQueue,
                                  [id |-> submitted + 1, addresses |-> addresses])
                    /\ isProcessingSend'
                    /\ active' = active
                    /\ pendingSends' = pendingSends
               ELSE /\ isProcessingSend'
                    /\ transactionQueue' = transactionQueue
                    /\ \E c \in active' :
                           /\ active' = active \cup {c}
                           /\ c \notin active
                           /\ c.addresses = addresses
                           /\ \A i \in 1..Len(addresses) : c.results[i] = "pending"
                           /\ pendingSends' = pendingSends \cup
                                  {<<c.id, i>> : i \in 1..Len(addresses)}
                           /\ \A i \in 1..Len(addresses) :
                                  <<c.id, i>> \notin pendingSends]_vars

C26_Witness ==
    /\ isProcessingSend
    /\ Len(transactionQueue) = 2
    /\ transactionQueue[1].id < transactionQueue[2].id
    /\ \E c \in active : c.via = "sendTokens" /\ c.id = 1

\* C28: the flag is set only while a send cycle is running: every step in
\* which a cycle ends, by returning or by throwing, leaves the flag cleared.
C28_FlagNeverStuck ==
    /\ [](isProcessingSend => active # {})
    /\ [][CompletedCycles # {} => ~isProcessingSend']_vars

\* a direct cycle has thrown, and the sender is idle again
C28_Witness ==
    /\ ~isProcessingSend
    /\ submitted = 2
    /\ dropCount = 2
    /\ currentBatch = 2
    /\ startOrder = <<1>>

\* C27: every batch that sendTokens has put in the pending list is eventually
\* being sent, whatever batches are submitted after it.
C27_QueuedBatchEventuallySent ==
    \A id \in 1..(MaxQueue + 1) :
        (\E i \in 1..Len(transactionQueue) : transactionQueue[i].id = id)
            ~> (\E c \in active : c.id = id)

(***************************************************************************)
(* Concurrent probes                                                       *)
(***************************************************************************)
\* C29: a sub-batch of probes writes the contract cache only after its join:
\* a probe that finds code changes the contract cache only in the step in
\* which the last outstanding probe of its sub-batch settles.
C29_CacheWrittenAfterJoin ==
    [][\A k \in 1..batchSize :
          /\ (SelectProbeSettles(k, "code")
                  /\ contractAddressCache' # contractAddressCache)
                 => Outstanding(sel.results) = {k}
          /\ \A p \in preChecks :
                 (PreCheckProbeSettles(p, k, "code")
                      /\ contractAddressCache' # contractAddressCache)
                     => Outstanding(p.results) = {k}]_vars

\* the getCode probes for address a that have not settled: those of the
\* running selection and those of the running pre-checks
OutstandingProbes(a) ==
    {<<0, k>> : k \in {j \in Outstanding(sel.results) :
                          /\ sel.pc = "probing"
                          /\ toLowerCase(Slice(sel.unknownContractStatus,
                                               sel.i, batchSize)[j]) = a}}
    \cup UNION {{<<p.id, k>> : k \in {j \in Outstanding(p.results) :
                                         toLowerCase(Slice(p.addresses, p.i,
                                                           batchSize)[j]) = a}} :
                    p \in preChecks}

\* C30: at no moment are two getCode probes outstanding for one address.
C30_OneProbePerAddress ==
    \A a \in Addresses : Cardinality(OutstandingProbes(a)) <= 1

(***************************************************************************)
(* Drop rounds                                                             *)
(***************************************************************************)
\* C37: whenever the sender is idle and no batch is pending, the drop count
\* equals the number of send cycles completed, which is the batch counter
\* minus 1.
C37_DropCountCountsCycles ==
    (~isProcessingSend /\ Len(transactionQueue) = 0 /\ active = {})
        => dropCount = currentBatch - 1

(***************************************************************************)
(* Re-registration and cleanup                                             *)
(***************************************************************************)
\* the bucket of batch b exists in m and holds address a
InBucket(m, b, a) == MapHas(m, b) /\ a \in MapGet(m, b)

\* C34: a call that registers an address which is already in the bucket of
\* its target batch leaves the member set and the expiry index as they were,
\* in the wallet cache and in the contract cache.
C34_ReRegisterIsNoOp ==
    [][/\ \A s \in RawAddresses, b \in 1..MaxBatchArg :
              (/\ InBucket(walletAddressExpirationCache, b + cooldownBatches,
                           toLowerCase(s))
               /\ CallAddToWalletAddressCache(s, b))
                  => /\ walletAddressCache' = walletAddressCache
                     /\ walletAddressExpirationCache' = walletAddressExpirationCache
       /\ \A s \in RawAddresses, b \in 1..MaxBatchArg, n \in BOOLEAN :
              (/\ InBucket(contractAddressExpirationCache,
                           b + cooldownBatches * 10, toLowerCase(s))
               /\ CallUpdateContractAddressCache(s, b, n))
                  => /\ contractAddressCache' = contractAddressCache
                     /\ contractAddressExpirationCache'
                            = contractAddressExpirationCache]_vars


\* the index after is the index before without the bucket of batch b
BucketDeleted(before, after, b) ==
    /\ MapKeys(after) = MapKeys(before) \ {b}
    /\ \A k \in MapKeys(after) : MapGet(after, k) = MapGet(before, k)

\* the wallet part of a cleanup for batch b, from this state to the next
WalletCleaned(b) ==
    IF MapHas(walletAddressExpirationCache, b)
    THEN /\ walletAddressCache'
                = walletAddressCache \ MapGet(walletAddressExpirationCache, b)
         /\ BucketDeleted(walletAddressExpirationCache,
                          walletAddressExpirationCache', b)
    ELSE /\ walletAddressCache' = walletAddressCache
         /\ walletAddressExpirationCache' = walletAddressExpirationCache

\* the contract part of a cleanup for batch b, from this state to the next
ContractCleaned(b) ==
    IF MapHas(contractAddressExpirationCache, b)
    THEN /\ DOMAIN contractAddressCache'
                = DOMAIN contractAddressCache
                      \ MapGet(contractAddressExpirationCache, b)
         /\ \A x \in DOMAIN contractAddressCache' :
                contractAddressCache'[x] = contractAddressCache[x]
         /\ BucketDeleted(contractAddressExpirationCache,
                          contractAddressExpirationCache', b)
    ELSE /\ contractAddressCache' = contractAddressCache
         /\ contractAddressExpirationCache' = contractAddressExpirationCache

\* C35: a cleanup for batch b removes from the cache exactly the addresses of
\* bucket b and deletes that bucket; every other member and every other bucket
\* stays as it was, and without a bucket for b the cache is unchanged.  This
\* holds for cleanupContractAddressCache and for cleanupWalletAddressCache,
\* whose contract part runs only when cleanupContracts is set.
C35_CleanupRemovesExactlyTheBucket ==
    [][/\ \A b \in ContractBatches :
              CallCleanupContractAddressCache(b) => ContractCleaned(b)
       /\ \A b \in WalletBatches \cup ContractBatches, c \in BOOLEAN :
              CallCleanupWalletAddressCache(b, c)
                  => /\ WalletCleaned(b)
                     /\ IF c THEN ContractCleaned(b)
                        ELSE /\ contractAddressCache' = contractAddressCache
                             /\ contractAddressExpirationCache'
                                    = contractAddressExpirationCache]_vars

\* both caches hold a bucket for the same batch with a member in it, next to
\* a bucket of another batch whose member a cleanup for that batch must keep
C35_Witness ==
    \E b \in WalletBatches :
        /\ MapHas(walletAddressExpirationCache, b)
        /\ MapHas(contractAddressExpirationCache, b)
        /\ MapGet(walletAddressExpirationCache, b) # {}
        /\ MapGet(contractAddressExpirationCache, b)
               \cap DOMAIN contractAddressCache # {}
        /\ walletAddressCache \ MapGet(walletAddressExpirationCache, b) # {}
        /\ DOMAIN contractAddressCache
               \ MapGet(contractAddressExpirationCache, b) # {}
        /\ Len(walletAddressExpirationCache) >= 2
        /\ Len(contractAddressExpirationCache) >= 2


(* Address feed *)
\* the addresses that appear as sender or receiver in the blocks, lower-cased
AddressesOf(blocks) ==
    {toLowerCase(x) : x \in UNION {Range(blocks[k]) : k \in 1..Len(blocks)}}
        \ {NoAddress}

\* the list holds each address of the blocks exactly once, in lower case
IsFeedOf(list, blocks) ==
    /\ Range(list) = AddressesOf(blocks)
    /\ \A i, j \in 1..Len(list) : i # j => list[i] # list[j]
    /\ \A i \in 1..Len(list) : list[i] = toLowerCase(list[i])

\* C39: extractAddressesFromBlocks returns every address that is sender or
\* receiver in the given blocks exactly once and lower-cased, so two spellings
\* of one address make one entry; this holds for the buffered blocks taken
\* together and for the list handed to each pre-check.
C39_FeedIsDedupedAndNormalized ==
    /\ IsFeedOf(extractAddressesFromBlocks(<<>>, newBlocksBuffer), newBlocksBuffer)
    /\ \A p \in preChecks : IsFeedOf(p.addresses, <<newBlocksBuffer[p.id]>>)

\* two blocks name one address in both spellings, and a pre-check runs on a
\* block that names it twice
C39_Witness ==
    /\ newBlocksBuffer = << <<"a", "A">>, <<"A", "b">> >>
    /\ \E p \in preChecks : p.id = 1 /\ p.addresses = <<"a">>
    /\ \E p \in preChecks : p.id = 2 /\ p.addresses = <<"a", "b">>


(* Cache-first selection and early stop *)
\* address has a cached status in cmap that says it is no contract
CachedAsWallet(cmap, address) ==
    /\ isContractAddressInCache(cmap, toLowerCase(address))
    /\ getContractAddressFromCache(cmap, toLowerCase(address)) # TRUE

NextSubBatchStarted ==
    sel.pc = "probing" /\ sel'.pc = "probing" /\ sel'.i # sel.i

\* the unknown candidates of the running selection in the sub-batches after
\* the one being probed
LaterSubBatches ==
    Range(SubSeq(sel.unknownContractStatus, sel.i + batchSize + 1,
                 Len(sel.unknownContractStatus)))

\* C33: the selection starts a further sub-batch only while the eligible pool
\* is below 2 x count, and when a selection returns from the probing loop with
\* a pool of 2 x count or more, the addresses of the later sub-batches have not
\* been probed in the step and are not in the pool it selects from.
C33_StopsProbingAtTwiceCount ==
    [][/\ NextSubBatchStarted
              => Len(sel'.preFilteredAddresses) < 2 * sel.count
       /\ (sel.pc = "probing" /\ SelectionReturned
               /\ BagSize(lastCall'.pool) >= 2 * lastCall'.count)
              => /\ NewSelectionProbes = {}
                 /\ \A a \in LaterSubBatches :
                        \/ a \notin DOMAIN lastCall'.pool
                        \/ a \in Range(sel.preFilteredAddresses)
                        \/ a \in Range(Slice(sel.unknownContractStatus,
                                             sel.i, batchSize))]_vars

\* the selection over the candidates a, b, c has returned after its first
\* sub-batch with the pool a, b, and c has not been classified
C33_Witness ==
    /\ lastCall.n = 1
    /\ lastCall.count = 1
    /\ DOMAIN lastCall.pool = {"a", "b"}
    /\ polls = 2
    /\ newBlocksBuffer = <<>>
    /\ ~CachedAsContract(contractAddressCache, "c")
    /\ \E p \in preChecks : p.addresses = <<"a", "c">>
                               /\ p.results = <<"wallet", "pending">>


(* Sub-batches *)
\* the list has room for a sub-batch after the one at position i
HasNextSubBatch(addresses, i) == i + batchSize < Len(addresses)

\* every address of the list from position i on (counted from 0) is held in
\* the contract cache cmap, so that isContractAddress answers it without a
\* probe
AllCachedFrom(addresses, i, cmap) ==
    \A j \in (i + 1)..Len(addresses) :
        isContractAddressInCache(cmap, toLowerCase(addresses[j]))

\* C31: a filterContractAddresses or selectRandomAddresses call has at most
\* batchSize probes outstanding; it moves on to a later sub-batch only in the
\* step in which the last outstanding probe of the current one settles, and by
\* whole sub-batches; and when that last probe fails the call goes on with
\* the next sub-batch (a selection unless its pool has reached 2 x count)
\* or, every remaining address being answered from the cache, runs to its
\* end.
C31_SubBatchesOneAtATime ==
    [][/\ Cardinality(Outstanding(sel'.results)) <= batchSize
       /\ Len(sel'.results) <= batchSize
       /\ \A q \in preChecks' :
              /\ Cardinality(Outstanding(q.results)) <= batchSize
              /\ Len(q.results) <= batchSize
       /\ NextSubBatchStarted
              => /\ \E k \in 1..batchSize : Outstanding(sel.results) = {k}
                 /\ sel'.i >= sel.i + batchSize
                 /\ (sel'.i - sel.i) % batchSize = 0
       /\ \A p \in preChecks, q \in preChecks' :
              (q.id = p.id /\ q.i # p.i)
                  => /\ \E k \in 1..batchSize : Outstanding(p.results) = {k}
                     /\ q.i >= p.i + batchSize
                     /\ (q.i - p.i) % batchSize = 0
       /\ \A p \in preChecks, k \in 1..batchSize :
              (/\ PreCheckProbeSettles(p, k, "error")
               /\ Outstanding(p.results) = {k}
               /\ HasNextSubBatch(p.addresses, p.i))
                  => \/ \E q \in preChecks' : q.id = p.id /\ q.i > p.i
                     \/ AllCachedFrom(p.addresses, p.i + batchSize,
                                      contractAddressCache')
       /\ \A k \in 1..batchSize :
              (/\ SelectProbeSettles(k, "error")
               /\ Outstanding(sel.results) = {k}
               /\ HasNextSubBatch(sel.unknownContractStatus, sel.i))
                  => \/ sel'.pc = "probing" /\ sel'.i > sel.i
                     \/ /\ SelectionReturned
                        /\ \/ BagSize(lastCall'.pool) >= 2 * lastCall'.count
                           \/ AllCachedFrom(sel.unknownContractStatus,
                                            sel.i + batchSize,
                                            contractAddressCache')]_vars

\* a pre-check and a selection are both in their second sub-batch, the
\* selection after a failed probe in its first
C31_Witness ==
    /\ \E p \in preChecks :
           /\ p.i = batchSize
           /\ p.addresses = <<"a", "b", "c">>
           /\ Outstanding(p.results) # {}
    /\ sel.pc = "probing"
    /\ sel.i = batchSize
    /\ sel.count = MaxCount
    /\ Outstanding(sel.results) # {}
    /\ sel.preFilteredAddresses # <<>>


(* Block buffer *)
\* C36: processBlockBuffer calls processBlocks only when no selection cycle
\* of an earlier call is running; the blocks handed to processBlocks so far
\* followed by the blocks in the buffer are the blocks that were buffered, in
\* their order, so that every buffered block is handed over once.
C36_OneCycleEveryBlockOnce ==
    [][/\ handed' # handed => (sel.pc = "idle" /\ ~isProcessingBlocks)
       /\ handed' # handed => newBlocksBuffer' = <<>>
       /\ Len(handed') + Len(newBlocksBuffer') = Len(pushed')
       /\ handed' = SubSeq(pushed', 1, Len(handed'))]_vars

\* the first block has been handed to processBlocks, whose selection is still
\* probing, and the second block has been buffered meanwhile
C36_Witness ==
    /\ sel.pc = "probing"
    /\ isProcessingBlocks
    /\ handed = <<1>>
    /\ pushed = <<1, 2>>
    /\ Len(newBlocksBuffer) = 1


\* no number occurs twice in the list
NoRepeat(numbers) ==
    \A i, j \in 1..Len(numbers) : i # j => numbers[i] # numbers[j]

\* C38: with checkForNewBlocks calls running side by side, lastProcessedBlock
\* never decreases and no block is put into the buffer twice.
C38_OverlappingPollsKeepOrder ==
    [][/\ lastProcessedBlock' >= lastProcessedBlock
       /\ NoRepeat(pushed')]_vars

====
